---- MODULE Spec2Model ----
(***************************************************************************)
(* Daily Standup Agent: the submission workflow (submit_standup), the      *)
(* team summary workflow (get_summary), the user summary workflow          *)
(* (get_user_summary) and the persistence operations they call, as a       *)
(* state machine over the two tables (standup_reports, daily_summaries),   *)
(* the per-session conversation state and the wall clock.                  *)
(*                                                                         *)
(* Every session runs at most one tool invocation at a time; invocations   *)
(* of different sessions interleave at their await points (the database    *)
(* calls) and the clock may advance between any two steps.                 *)
(***************************************************************************)
EXTENDS Integers, Sequences, FiniteSets, TLC

(***************************************************************************)
(* Bounds of the model.                                                    *)
(***************************************************************************)
\* tool invocations started in one behaviour
MaxTurns == 3
\* tool invocations started in one behaviour of the submission workflow alone
MaxSubmissionTurns == 2
\* tool invocations started in one behaviour of the summary cache's workflows
MaxCacheTurns == 4
\* instants the clock runs through, counted from the first instant of day 1
MaxInstants == 4

(***************************************************************************)
(* Configuration (src/src/config/settings.py).                             *)
(***************************************************************************)
WINDOW_START_HOUR == 9
WINDOW_START_MINUTE == 30
WINDOW_END_HOUR == 12
WINDOW_END_MINUTE == 30
\* time(h, m) as minutes since midnight
WINDOW_START == WINDOW_START_HOUR * 60 + WINDOW_START_MINUTE
WINDOW_END == WINDOW_END_HOUR * 60 + WINDOW_END_MINUTE

(***************************************************************************)
(* Value domains.                                                          *)
(***************************************************************************)
\* Python's None
None == "<None>"
Sessions == {"s1", "s2"}
Users == {"Ada", "Leo"}
\* what the LLM can put in the user_name field of its JSON answer
NameValues == {None, "null", ""} \cup Users
\* the other four fields of the LLM's JSON answer
Payloads ==
    { [yesterday_work |-> None, today_plan |-> "p1", blockers |-> None, additional_notes |-> None],
      [yesterday_work |-> "y1", today_plan |-> "p2", blockers |-> "b1", additional_notes |-> "n1"],
      [yesterday_work |-> "y1", today_plan |-> None, blockers |-> None, additional_notes |-> None],
      [yesterday_work |-> "y1", today_plan |-> "null", blockers |-> "b1", additional_notes |-> None],
      [yesterday_work |-> None, today_plan |-> "", blockers |-> None, additional_notes |-> "n1"] }
\* the payloads of a well-formed answer
TypicalPayloads == {p \in Payloads : p.today_plan = "p1"}
\* the text of the inbound message of a turn
Message == "msg"
\* instants of a day the clock stops at: before the window, at its last
\* instant, and after it
TimePoints == <<WINDOW_START - 1, WINDOW_END, WINDOW_END + 1>>
\* team summary texts the LLM can return
SummaryTexts == {"t1"}
\* date queries handed to get_summary, as their words; "date:0" and "date:1"
\* are the YYYY-MM-DD texts of days 0 and 1, "2025-02-30" has that shape and
\* is no calendar date
DateQueries == {<<"today">>, <<"yesterday">>, <<"2025-02-30">>}
\* date queries handed to parse_date_query directly
\* the weekday names of days_of_week, Monday first
WeekdayNames ==
    <<"monday", "tuesday", "wednesday", "thursday", "friday", "saturday", "sunday">>
ParserQueries ==
    DateQueries
    \cup {<<>>, <<"standup", "summary">>, <<"summary", "for", "yesterday">>,
          <<"day", "before", "yesterday">>, <<"date:0">>, <<"date:1">>,
          <<"2025-02-30", "today">>, <<"last", "monday">>, <<"last", "friday">>,
          <<"2", "days", "ago">>, <<"999999999", "days", "ago">>}
    \cup {<<"last", WeekdayNames[n]>> : n \in 1..7}
\* user name lists handed to get_reports_by_users_and_date_range directly
UserNameLists == {<<>>, <<"Ada">>, <<"Leo">>, <<"Ada", "Leo">>, <<"Leo", "Ada">>}
\* the days from date.min to day 0 of the model
DaysSinceDateMin == 739000
\* the last day a directly called range query asks for
MaxRangeDay == 2
\* range queries handed to get_user_summary
RangeQueries == {<<"today">>, <<"yesterday">>}
\* queries handed to parse_date_range_query directly
RangeParserQueries ==
    RangeQueries
    \cup {<<>>, <<"this", "week">>, <<"last", "week">>, <<"standups", "last", "week">>,
          <<"last", "two", "weeks">>, <<"last", "2", "weeks">>, <<"past", "week">>,
          <<"past", "two", "weeks">>, <<"past", "2", "weeks">>,
          <<"last", "0", "days">>, <<"last", "1", "day">>, <<"last", "7", "days">>,
          <<"last", "14", "days">>, <<"past", "0", "days">>, <<"past", "1", "days">>,
          <<"past", "7", "days">>, <<"past", "14", "days">>,
          <<"last", "999999999", "days">>,
          <<"date:0", "to", "date:1">>, <<"from", "date:1", "to", "date:0">>,
          <<"date:1">>, <<"2025-02-30">>, <<"date:0", "to", "2025-02-30">>}
\* the first day of the behaviours that start on any day of a week
MaxStartDay == 7
\* turns followed when summaries are requested next to submissions
MaxSummaryTurns == 3
\* turns followed when summaries are regenerated over stored reports
MaxRegenerationTurns == 3
\* UTC days on which requests are parsed, counted from 1 January 2025
MaxUtcDay == 32
\* the name lists the LLM can extract from a get_user_summary query
NameLists == {<<>>, <<"Ada">>, <<"Ada", "Leo">>}
\* more of them: a name twice, and a name no report carries
ExtractedNameLists == NameLists \cup {<<"Ada", "Ada">>, <<"Leo", "Ada", "Leo">>, <<"Zoe">>}
\* turns followed when member summaries are requested over any range
MaxUserSummaryTurns == 3
\* turns followed when summaries are requested in the middle of a conversation
MaxReadOnlyTurns == 2

\* Python truthiness of an optional string: None and "" are falsy
Falsy(x) == x = None \/ x = ""

(***************************************************************************)
(* State.                                                                  *)
(***************************************************************************)
VARIABLES
    clock,            \* the wall clock in WAT: [day, tp], tp an index of TimePoints
    standup_reports,  \* table standup_reports, a set of rows
    daily_summaries,  \* table daily_summaries, a set of rows
    state,            \* tool_context.state of each session
    pc,               \* where each session's tool invocation stands
    locals,           \* the local variables of each session's invocation
    obs,              \* what each session's invocation did and returned
    turns,            \* invocations started so far
    request,          \* the webhook request each session's handler is serving
    call              \* a direct call of a parser or persistence function

vars == <<clock, standup_reports, daily_summaries, state, pc, locals, obs, turns,
          request, call>>

\* ---- the clock ------------------------------------------------------------
\* datetime.now(WAT).time()
NowTime == TimePoints[clock.tp]
\* get_today_wat(): datetime.now(WAT).date()
get_today_wat == clock.day
\* get_current_wat_time() / get_submission_time_wat()
get_current_wat_time == [day |-> clock.day, time |-> NowTime]

\* faulty variant: the upper boundary is not compared
is_within_window_NoEnd(now) == WINDOW_START <= now

\* is_within_window(): WINDOW_START <= now <= WINDOW_END
is_within_window(now) == WINDOW_START <= now /\ now <= WINDOW_END

\* faulty variant: the window end itself counts as after the window
get_window_status_EndExclusive(now) ==
    IF now < WINDOW_START THEN "before"
    ELSE IF now >= WINDOW_END THEN "after"
    ELSE "during"

\* get_window_status()
get_window_status(now) ==
    IF now < WINDOW_START THEN "before"
    ELSE IF now > WINDOW_END THEN "after"
    ELSE "during"

\* get_window_message(user_name): which of its three messages it returns
get_window_message(now) == "window_" \o get_window_status(now)

\* ---- the persistence layer (src/src/database/operations.py) ---------------
\* the rows of a table that match (user_name, report_date)
RowsFor(reports, user_name, report_date) ==
    {r \in reports : r.user_name = user_name /\ r.report_date = report_date}

\* faulty variant: the lookup is made for the day before
has_submitted_today_DayBefore(user_name, report_date) ==
    RowsFor(standup_reports, user_name, report_date - 1) # {}

\* has_submitted_today: SELECT EXISTS(... WHERE user_name = $1 AND report_date = $2)
has_submitted_today(user_name, report_date) ==
    RowsFor(standup_reports, user_name, report_date) # {}

\* faulty variant: a plain INSERT into a table without the unique constraint
InsertReport_NoConstraint(reports, row) ==
    [reports |-> reports \cup {row}, returned |-> TRUE]

\* faulty variant: ON CONFLICT (user_name, report_date) DO UPDATE SET ...
InsertReport_DoUpdate(reports, row) ==
    [reports  |-> (reports \ RowsFor(reports, row.user_name, row.report_date))
                  \cup {row},
     returned |-> TRUE]

\* INSERT ... ON CONFLICT (user_name, report_date) DO NOTHING RETURNING report_id:
\* the table after the statement and whether a report_id came back
InsertReport(reports, row) ==
    IF RowsFor(reports, row.user_name, row.report_date) # {}
    THEN [reports |-> reports, returned |-> FALSE]
    ELSE [reports |-> reports \cup {row}, returned |-> TRUE]

\* the database-side trigger on standup_reports (database/schema.sql): an
\* inserted report deletes the cached summary of its report_date
InvalidateSummaryTrigger(summaries, report_date) ==
    {r \in summaries : r.summary_date # report_date}

\* faulty variant: DELETE the user's report of that date, then INSERT
save_standup_report_Replace(row, db_ok) ==
    IF ~db_ok
    THEN [reports |-> standup_reports, summaries |-> daily_summaries, success |-> FALSE]
    ELSE [reports   |-> (standup_reports
                           \ RowsFor(standup_reports, row.user_name, row.report_date))
                        \cup {row},
          summaries |-> InvalidateSummaryTrigger(daily_summaries, row.report_date),
          success   |-> TRUE]

\* faulty variant: a conflict is reported as a row saved
save_standup_report_AlwaysTrue(row, db_ok) ==
    IF ~db_ok
    THEN [reports |-> standup_reports, summaries |-> daily_summaries, success |-> FALSE]
    ELSE [reports   |-> InsertReport(standup_reports, row).reports,
          summaries |-> IF InsertReport(standup_reports, row).returned
                        THEN InvalidateSummaryTrigger(daily_summaries, row.report_date)
                        ELSE daily_summaries,
          success   |-> TRUE]

\* faulty variant: the failing statement has stored its row
save_standup_report_StoredThenFailed(row, db_ok) ==
    IF ~db_ok
    THEN [reports |-> standup_reports \cup {row}, summaries |-> daily_summaries,
          success |-> FALSE]
    ELSE LET ins == InsertReport(standup_reports, row) IN
         [reports   |-> ins.reports,
          summaries |-> IF ins.returned
                        THEN InvalidateSummaryTrigger(daily_summaries, row.report_date)
                        ELSE daily_summaries,
          success   |-> ins.returned]

\* save_standup_report: the tables after the call and the boolean it returns;
\* db_ok = FALSE is a failing statement, caught and turned into False
save_standup_report(row, db_ok) ==
    IF ~db_ok
    THEN [reports |-> standup_reports, summaries |-> daily_summaries, success |-> FALSE]
    ELSE LET ins == InsertReport(standup_reports, row) IN
         [reports   |-> ins.reports,
          summaries |-> IF ins.returned
                        THEN InvalidateSummaryTrigger(daily_summaries, row.report_date)
                        ELSE daily_summaries,
          success   |-> ins.returned]

\* get_daily_reports: the rows of one report_date
get_daily_reports(report_date) ==
    {r \in standup_reports : r.report_date = report_date}

\* faulty variant: the lookup is made for the day before
get_cached_summary_DayBefore(summary_date) ==
    {r \in daily_summaries : r.summary_date = summary_date - 1}

\* faulty variant: a plain INSERT, without ON CONFLICT (summary_date) DO UPDATE
cache_summary_PlainInsert(summaries, summary_date, summary_text, total_submissions, generated_at) ==
    summaries
    \cup {[summary_date      |-> summary_date,
           full_summary      |-> summary_text,
           total_submissions |-> total_submissions,
           generated_at      |-> generated_at]}

\* faulty variant: ON CONFLICT (summary_date) DO NOTHING
cache_summary_DoNothing(summaries, summary_date, summary_text, total_submissions, generated_at) ==
    IF \E r \in summaries : r.summary_date = summary_date
    THEN summaries
    ELSE summaries
         \cup {[summary_date      |-> summary_date,
                full_summary      |-> summary_text,
                total_submissions |-> total_submissions,
                generated_at      |-> generated_at]}

\* get_cached_summary: the rows of daily_summaries with that summary_date
get_cached_summary(summary_date) ==
    {r \in daily_summaries : r.summary_date = summary_date}

\* cache_summary: INSERT ... ON CONFLICT (summary_date) DO UPDATE SET ...
cache_summary(summaries, summary_date, summary_text, total_submissions, generated_at) ==
    {r \in summaries : r.summary_date # summary_date}
    \cup {[summary_date      |-> summary_date,
           full_summary      |-> summary_text,
           total_submissions |-> total_submissions,
           generated_at      |-> generated_at]}

\* ---- the date parser (src/src/utils/date_parser.py) ------------------------
\* "phrase in query": the words of phrase occur in query, in a row
Contains(query, phrase) ==
    \E i \in 1..(Len(query) - Len(phrase) + 1) :
        SubSeq(query, i, i + Len(phrase) - 1) = phrase

\* re.search(r'\d{4}-\d{2}-\d{2}', query): the matches, first one first
DateShaped(query) ==
    SelectSeq(query, LAMBDA w : w \in {"date:0", "date:1", "2025-02-30"})

\* re.search(r'(\d+)\s+days?\s+ago', query): the numbers followed by "days ago"
DaysAgo(query) ==
    {IF query[i] = "2" THEN 2 ELSE 999999999 :
        i \in {j \in 1..(Len(query) - 2) :
                  /\ query[j] \in {"2", "999999999"}
                  /\ query[j + 1] = "days"
                  /\ query[j + 2] = "ago"}}

\* date.weekday(): day 0 of the model is a Monday
weekday(day) == day % 7

\* days_of_week: the weekday numbers whose "last <day>" occurs in the query
LastWeekdays(query) ==
    {n \in 0..6 :
        Contains(query, <<"last", <<"monday", "tuesday", "wednesday", "thursday",
                                   "friday", "saturday", "sunday">>[n + 1]>>)}

\* a date returned, or an exception raised
Returned(date) == [raised |-> "none", date |-> date]
Raised(exception) == [raised |-> exception, date |-> 0]

\* today - timedelta(days): OverflowError below date.min
DaysBefore(today, days) ==
    IF today - days < 0 - DaysSinceDateMin
    THEN Raised("OverflowError")
    ELSE Returned(today - days)

\* faulty variant: today counts as its own last occurrence
days_back_TodayCounts(today, day_num) == (weekday(today) - day_num) % 7

\* lines 80-82: the days back to the last occurrence of weekday day_num; a week
\* when today is that weekday
days_back(today, day_num) ==
    IF (weekday(today) - day_num) % 7 = 0 THEN 7 ELSE (weekday(today) - day_num) % 7

\* parse_date_query
parse_date_query(query) ==
    LET today == get_today_wat IN
    IF Contains(query, <<"today">>) THEN Returned(today)
    ELSE IF /\ Contains(query, <<"yesterday">>)
            /\ ~Contains(query, <<"day", "before", "yesterday">>)
    THEN Returned(today - 1)
    ELSE IF Contains(query, <<"day", "before", "yesterday">>)
    THEN Returned(today - 2)
    ELSE IF DateShaped(query) # <<>>
    THEN IF DateShaped(query)[1] = "date:0" THEN Returned(0)
         ELSE IF DateShaped(query)[1] = "date:1" THEN Returned(1)
         ELSE Raised("ValueError")
    ELSE IF LastWeekdays(query) # {}
    THEN LET day_num == CHOOSE n \in LastWeekdays(query) :
                            \A m \in LastWeekdays(query) : n <= m IN
         Returned(today - days_back(today, day_num))
    ELSE IF DaysAgo(query) # {}
    THEN DaysBefore(today, CHOOSE n \in DaysAgo(query) : TRUE)
    ELSE Returned(today)

\* faulty variant: the week starts on the Sunday before
get_last_monday_FromSunday == get_today_wat - ((weekday(get_today_wat) + 1) % 7)

\* get_last_monday: the Monday of the current week
get_last_monday == get_today_wat - weekday(get_today_wat)

\* int() of the number words of the queries
IntOf(word) ==
    CASE word = "0" -> 0 [] word = "1" -> 1 [] word = "2" -> 2 [] word = "7" -> 7
      [] word = "14" -> 14 [] OTHER -> 999999999

\* re.search(r'<first>\s+(\d+)\s+days?', query_lower): the positions that match
DaysPhrases(query, first) ==
    {j \in 1..(Len(query) - 2) :
        /\ query[j] = first
        /\ query[j + 1] \in {"0", "1", "2", "7", "14", "999999999"}
        /\ query[j + 2] \in {"day", "days"}}

\* datetime.strptime(word, "%Y-%m-%d").date()
strptime_date(word) ==
    IF word = "date:0" THEN Returned(0)
    ELSE IF word = "date:1" THEN Returned(1)
    ELSE Raised("ValueError")

\* a range returned, or an exception raised
RangeReturned(start_date, end_date) ==
    [raised |-> "none", start_date |-> start_date, end_date |-> end_date]
RangeRaised(exception) == [raised |-> exception, start_date |-> 0, end_date |-> 0]

\* lines 149-160: (today - timedelta(days=num_days - 1), today)
LastDaysRange(today, num_days) ==
    IF DaysBefore(today, num_days - 1).raised # "none"
    THEN RangeRaised(DaysBefore(today, num_days - 1).raised)
    ELSE RangeReturned(today - (num_days - 1), today)

\* parse_date_range_query (lines 96-200)
parse_date_range_query(query) ==
    LET today == get_today_wat
        first(S) == CHOOSE j \in S : \A k \in S : j <= k
        date_matches == DateShaped(query) IN
    IF Contains(query, <<"this", "week">>) THEN RangeReturned(get_last_monday, today)
    ELSE IF Contains(query, <<"last", "week">>)
    THEN RangeReturned(get_last_monday - 7, (get_last_monday - 7) + 6)
    ELSE IF Contains(query, <<"last", "two", "weeks">>)
            \/ Contains(query, <<"last", "2", "weeks">>)
    THEN RangeReturned(get_last_monday - 14, get_last_monday - 1)
    ELSE IF Contains(query, <<"past", "week">>) THEN RangeReturned(today - 6, today)
    ELSE IF Contains(query, <<"past", "two", "weeks">>)
            \/ Contains(query, <<"past", "2", "weeks">>)
    THEN RangeReturned(today - 13, today)
    ELSE IF DaysPhrases(query, "last") # {}
    THEN LastDaysRange(today, IntOf(query[first(DaysPhrases(query, "last")) + 1]))
    ELSE IF DaysPhrases(query, "past") # {}
    THEN LastDaysRange(today, IntOf(query[first(DaysPhrases(query, "past")) + 1]))
    ELSE IF Len(date_matches) >= 2
    THEN LET start == strptime_date(date_matches[1])
             end == strptime_date(date_matches[2]) IN
         IF start.raised # "none" \/ end.raised # "none"
         THEN RangeRaised("ValueError")
         ELSE IF start.date > end.date
         THEN RangeReturned(end.date, start.date)
         ELSE RangeReturned(start.date, end.date)
    ELSE IF Len(date_matches) = 1
    THEN IF strptime_date(date_matches[1]).raised # "none"
         THEN RangeRaised("ValueError")
         ELSE RangeReturned(strptime_date(date_matches[1]).date,
                            strptime_date(date_matches[1]).date)
    ELSE IF Contains(query, <<"today">>) THEN RangeReturned(today, today)
    ELSE IF Contains(query, <<"yesterday">>) THEN RangeReturned(today - 1, today - 1)
    ELSE RangeReturned(today, today)

\* the elements of a list
Elems(seq) == {seq[i] : i \in 1..Len(seq)}

\* the columns get_reports_by_users_and_date_range selects (lines 146-153)
SelectedColumns(r) ==
    [user_name |-> r.user_name, report_date |-> r.report_date,
     yesterday_work |-> r.yesterday_work, today_plan |-> r.today_plan,
     blockers |-> r.blockers, additional_notes |-> r.additional_notes,
     submitted_at |-> r.submitted_at]

\* faulty variant: a date holds entries only for the users who reported
get_reports_by_users_and_date_range_OmitAbsent(user_names, start_date, end_date) ==
    IF user_names = <<>>
    THEN [d \in {} |-> <<>>]
    ELSE [d \in start_date..end_date |->
            [u \in {v \in Elems(user_names) : RowsFor(standup_reports, v, d) # {}} |->
                <<SelectedColumns(CHOOSE r \in RowsFor(standup_reports, u, d) : TRUE)>>]]

\* faulty variant: the entries are the rows of the day before
get_reports_by_users_and_date_range_DayBefore(user_names, start_date, end_date) ==
    IF user_names = <<>>
    THEN [d \in {} |-> <<>>]
    ELSE [d \in start_date..end_date |->
            [u \in Elems(user_names) |->
                IF RowsFor(standup_reports, u, d - 1) # {}
                THEN <<SelectedColumns(CHOOSE r \in RowsFor(standup_reports, u, d - 1) : TRUE)>>
                ELSE <<>>]]

\* get_reports_by_users_and_date_range: for every date of the range and every
\* requested user the report, <<row>>, or the absent marker, <<>>
\* faulty variant: the start date gets its key whatever the end date is
get_reports_by_users_and_date_range_StartAlways(user_names, start_date, end_date) ==
    IF user_names = <<>>
    THEN [d \in {} |-> <<>>]
    ELSE [d \in {start_date} \cup (start_date..end_date) |->
            [u \in Elems(user_names) |->
                IF RowsFor(standup_reports, u, d) # {}
                THEN <<SelectedColumns(CHOOSE r \in RowsFor(standup_reports, u, d) : TRUE)>>
                ELSE <<>>]]

get_reports_by_users_and_date_range(user_names, start_date, end_date) ==
    IF user_names = <<>>
    THEN [d \in {} |-> <<>>]
    ELSE [d \in start_date..end_date |->
            [u \in Elems(user_names) |->
                IF RowsFor(standup_reports, u, d) # {}
                THEN <<SelectedColumns(CHOOSE r \in RowsFor(standup_reports, u, d) : TRUE)>>
                ELSE <<>>]]

\* ---- sessions and invocations ---------------------------------------------
\* state={} of a new session; asked_for_name FALSE and pending_standup_data <<>>
\* stand for a key that is absent or None (both falsy)
EmptyState == [asked_for_name |-> FALSE, pending_standup_data |-> <<>>]

NoTime == [day |-> 0, time |-> 0]
NoText == [llm |-> None, fallback |-> {}]

NoLocals ==
    [pending_standup |-> <<>>, extracted |-> <<>>, report_date |-> 0,
     submitted_at |-> NoTime,
     target_date |-> 0, reports |-> {}, summary_text |-> NoText,
     generated_at |-> NoTime]

\* the record of one invocation: which tool ran, what it read and did, and the
\* message it returned
NoObs ==
    [op |-> "none", response |-> "none", state_before |-> EmptyState,
     window_read |-> -1, key_existed |-> "unread",
     llm_name |-> "unread", llm_payload |-> <<>>, user_name |-> None, report_date |-> 0,
     carried_new_values |-> FALSE,
     save_attempts |-> 0, save_result |-> "none", save_returned |-> "none",
     target_date |-> 0, rows_before |-> 0, cache_hit |-> {},
     llm_calls |-> 0, report_fetches |-> 0, cache_writes |-> 0,
     cache_overwrote |-> FALSE, reports_by_date |-> <<>>,
     shown |-> [text |-> NoText, generated_at |-> -1, total |-> -1],
     stats |-> [total_days |-> -1, tracked |-> -1, actual |-> -1, possible |-> -1]]

\* ---- webhook requests (src/main.py, src/src/utils/a2a_serializer.py) --------
\* a method string as its words; null is JSON null
MethodNull == [null |-> TRUE, words |-> <<>>]
Method(words) == [null |-> FALSE, words |-> words]
\* the values of the envelope's method
Methods ==
    {MethodNull, Method(<<>>), Method(<<"message", "send">>),
     Method(<<"tasks", "SEND">>), Method(<<"message", "stream">>),
     Method(<<"tasks", "get">>)}

\* a request body: what request.json() makes of it (kind), whether it has
\* "jsonrpc" and "method" as keys (as elements, for a list), its method, whether
\* params and params.message are objects, and its message text
Body(kind, jsonrpc, method_key, method, params_ok, text) ==
    [kind |-> kind, jsonrpc |-> jsonrpc, method_key |-> method_key,
     method |-> method, params_ok |-> params_ok, text |-> text]

Bodies ==
    {Body("not_json", FALSE, FALSE, MethodNull, FALSE, "")}
    \cup {Body("list", b, b, MethodNull, FALSE, "") : b \in BOOLEAN}
    \cup {Body("dict", TRUE, TRUE, m, TRUE, x) : m \in Methods, x \in {"", Message}}
    \cup {Body("dict", TRUE, TRUE, m, FALSE, "") :
              m \in {Method(<<"message", "send">>), Method(<<"tasks", "get">>)}}
    \cup {Body("dict", j[1], j[2], Method(<<"message", "send">>), TRUE, x) :
              j \in {<<FALSE, FALSE>>, <<TRUE, FALSE>>, <<FALSE, TRUE>>},
              x \in {"", Message}}

NoBody == Body("none", FALSE, FALSE, MethodNull, FALSE, "")

\* the reply of handle_rpc: its shape, JSON-RPC error code, HTTP status and the
\* pieces its text is put together from
Reply(shape, code, status, text) ==
    [shape |-> shape, code |-> code, status |-> status, text |-> text]

NoReply == Reply("none", 0, 0, <<>>)

\* a handler that has not served a request; session tells whether the session
\* service holds the session of this key
NoRequest ==
    [stage |-> "none", body |-> NoBody, format |-> "none",
     session |-> "absent", session_lookups |-> 0, agent_runs |-> 0,
     reply |-> NoReply]

\* no direct call made
NoCall == [fn |-> "none", args |-> <<>>, raised |-> "none", result |-> <<>>]

Init ==
    /\ clock = [day |-> 1, tp |-> 1]
    /\ standup_reports = {}
    /\ daily_summaries = {}
    /\ state = [s \in Sessions |-> EmptyState]
    /\ pc = [s \in Sessions |-> "idle"]
    /\ locals = [s \in Sessions |-> NoLocals]
    /\ obs = [s \in Sessions |-> NoObs]
    /\ turns = 0
    /\ request = [s \in Sessions |-> NoRequest]
    /\ call = NoCall

\* time passes: to the next instant of the day, or to the next day
Tick ==
    /\ (clock.day - 1) * Len(TimePoints) + clock.tp < MaxInstants
    /\ \/ /\ clock.tp < Len(TimePoints)
          /\ clock' = [clock EXCEPT !.tp = @ + 1]
       \/ /\ clock.tp = Len(TimePoints)
          /\ clock' = [day |-> clock.day + 1, tp |-> 1]
    /\ UNCHANGED <<standup_reports, daily_summaries, state, pc, locals, obs, turns, request, call>>

\* ---- submit_standup (src/src/tools/submit_standup.py) ---------------------
\* the invocation of session s returns resp, leaving st as the session's state
\* and o as the record of what it did
Return(s, st, o, resp) ==
    /\ state' = [state EXCEPT ![s] = st]
    /\ pc' = [pc EXCEPT ![s] = "done"]
    /\ obs' = [obs EXCEPT ![s] = [o EXCEPT !.response = resp]]
    /\ locals' = [locals EXCEPT ![s] = NoLocals]

\* faulty variant: no plan is taken for missing
MissingPlan_Never(today_plan) == FALSE

\* faulty variant: only an absent or empty plan is rejected
MissingPlan_NullAccepted(today_plan) == Falsy(today_plan)

\* line 126: not today_plan or today_plan == "null"
MissingPlan(today_plan) == Falsy(today_plan) \/ today_plan = "null"

\* faulty variant: the name request survives the extraction of the name
ClearNameRequest_Never(st) == st

\* faulty variant: the cached payload is left in the state
ClearNameRequest_FlagOnly(st) == [st EXCEPT !.asked_for_name = FALSE]

\* faulty variant: line 77 is missing, the flag stays set
ClearNameRequest_PayloadOnly(st) == [st EXCEPT !.pending_standup_data = <<>>]

\* lines 77-78: asked_for_name = None, pending_standup_data = None (both falsy)
ClearNameRequest(st) ==
    [st EXCEPT !.asked_for_name = FALSE, !.pending_standup_data = <<>>]

\* lines 118-136: with a name extracted, validate today_plan, check the window
\* and read the report date
Validate(s, extracted, pending_standup, st, o) ==
    IF Falsy(extracted.user_name)
    THEN Return(s, st, o, "ask_name_again")
    ELSE IF MissingPlan(extracted.today_plan)
    THEN Return(s, st, o, "need_today_plan")
    ELSE IF ~is_within_window(NowTime)
    THEN /\ state' = [state EXCEPT ![s] = st]
         /\ pc' = [pc EXCEPT ![s] = "window_message"]
         /\ obs' = [obs EXCEPT ![s] = [o EXCEPT !.window_read = NowTime,
                                                !.user_name = extracted.user_name]]
         /\ locals' = [locals EXCEPT ![s] =
                          [NoLocals EXCEPT !.extracted = <<extracted>>,
                                           !.pending_standup = pending_standup]]
    ELSE /\ state' = [state EXCEPT ![s] = st]
         /\ pc' = [pc EXCEPT ![s] = "check_duplicate"]
         /\ obs' = [obs EXCEPT ![s] = [o EXCEPT !.window_read = NowTime,
                                                !.user_name = extracted.user_name,
                                                !.report_date = get_today_wat]]
         /\ locals' = [locals EXCEPT ![s] =
                          [NoLocals EXCEPT !.extracted = <<extracted>>,
                                           !.pending_standup = pending_standup,
                                           !.report_date = get_today_wat]]

\* lines 67-78: the name is merged with the cached payload, the two state keys
\* are cleared, and the checks of lines 118-136 follow
NameExtracted(s, o, out) ==
    LET pending_standup == state[s].pending_standup_data IN
    Validate(s,
             [user_name        |-> out,
              yesterday_work   |-> pending_standup[1].yesterday_work,
              today_plan       |-> pending_standup[1].today_plan,
              blockers         |-> pending_standup[1].blockers,
              additional_notes |-> pending_standup[1].additional_notes],
             pending_standup,
             ClearNameRequest(state[s]),
             o)

\* faulty variant: a failed name extraction drops the name request
ExtractName_FailureClears(s, o, out) ==
    IF out = "fail"
    THEN Return(s, ClearNameRequest(state[s]), [o EXCEPT !.llm_name = out], "name_error")
    ELSE IF Falsy(out) \/ out = "null"
    THEN Return(s, ClearNameRequest(state[s]), [o EXCEPT !.llm_name = out], "name_retry")
    ELSE NameExtracted(s, [o EXCEPT !.llm_name = out], out)

\* lines 49-82: the follow-up turn of a session that was asked for a name;
\* out is the name-extraction call's outcome
ExtractName(s, o, out) ==
    IF out = "fail"
    THEN Return(s, state[s], [o EXCEPT !.llm_name = out], "name_error")
    ELSE IF Falsy(out) \/ out = "null"
    THEN Return(s, state[s], [o EXCEPT !.llm_name = out], "name_retry")
    ELSE NameExtracted(s, [o EXCEPT !.llm_name = out], out)

\* lines 105-116 and 118-136: the answer was parsed; without a name the payload
\* is cached and the name asked for, with one the checks follow
StandupExtracted(s, o, out) ==
    LET extracted == [user_name        |-> out[1],
                      yesterday_work   |-> out[2].yesterday_work,
                      today_plan       |-> out[2].today_plan,
                      blockers         |-> out[2].blockers,
                      additional_notes |-> out[2].additional_notes] IN
    IF Falsy(extracted.user_name) \/ extracted.user_name = "null"
    THEN Return(s,
                [asked_for_name |-> TRUE,
                 pending_standup_data |->
                     <<[yesterday_work   |-> extracted.yesterday_work,
                        today_plan       |-> extracted.today_plan,
                        blockers         |-> extracted.blockers,
                        additional_notes |-> extracted.additional_notes]>>],
                [o EXCEPT !.llm_payload = <<out[2]>>, !.llm_name = out[1]],
                "ask_name")
    ELSE Validate(s, extracted, state[s].pending_standup_data, state[s],
                  [o EXCEPT !.llm_payload = <<out[2]>>, !.llm_name = out[1]])

\* faulty variant: a failed extraction asks for the name
ExtractStandup_FailureAsksName(s, o, out) ==
    IF out = <<"fail">>
    THEN Return(s, [asked_for_name |-> TRUE,
                    pending_standup_data |-> <<CHOOSE p \in Payloads : TRUE>>],
                [o EXCEPT !.llm_name = "fail"], "ask_name")
    ELSE StandupExtracted(s, o, out)

\* lines 83-116: a first or regular turn; out is the extraction call's outcome
ExtractStandup(s, o, out) ==
    IF out = <<"fail">>
    THEN Return(s, state[s], [o EXCEPT !.llm_name = "fail"], "extract_error")
    ELSE StandupExtracted(s, o, out)

\* submit_standup up to its first await (lines 45-136); the LLM answers with a
\* name of names and a payload of payloads, or the call or its parsing fails
submit_standup(s, names, payloads) ==
    /\ pc[s] = "idle"
    /\ turns' = turns + 1
    /\ LET o == [NoObs EXCEPT !.op = "submit_standup", !.state_before = state[s]] IN
       IF state[s].asked_for_name /\ state[s].pending_standup_data # <<>>
       THEN \E out \in {"fail"} \cup names : ExtractName(s, o, out)
       ELSE \E out \in {<<"fail">>} \cup (names \X payloads) :
               ExtractStandup(s, o, out)
    /\ UNCHANGED <<clock, standup_reports, daily_summaries, request, call>>

\* a submission turn with any answer of the LLM
SubmitStart(s) == submit_standup(s, NameValues, Payloads)

\* line 133: get_window_message reads the clock again
SubmitWindowMessage(s) ==
    /\ pc[s] = "window_message"
    /\ Return(s, state[s], obs[s], get_window_message(NowTime))
    /\ UNCHANGED <<clock, standup_reports, daily_summaries, turns, request, call>>

\* lines 138-150: the duplicate check's query returns (or fails), then the
\* submission time is read
SubmitCheckDuplicate(s) ==
    /\ pc[s] = "check_duplicate"
    /\ LET user_name == locals[s].extracted[1].user_name
           o == [obs[s] EXCEPT !.key_existed =
                    IF \E r \in standup_reports :
                          /\ r.user_name = user_name
                          /\ r.report_date = locals[s].report_date
                    THEN "yes" ELSE "no"] IN
       \E db_ok \in BOOLEAN :
          IF ~db_ok
          THEN Return(s, state[s], [o EXCEPT !.key_existed = "failed"], "exception")
          ELSE IF has_submitted_today(user_name, locals[s].report_date)
          THEN Return(s, state[s], o, "duplicate")
          ELSE /\ pc' = [pc EXCEPT ![s] = "save"]
               /\ obs' = [obs EXCEPT ![s] = o]
               /\ locals' = [locals EXCEPT ![s].submitted_at = get_current_wat_time]
               /\ state' = state
    /\ UNCHANGED <<clock, standup_reports, daily_summaries, turns, request, call>>

\* the row submit_standup hands to save_standup_report (lines 152-162)
NewReport(s) ==
    LET extracted == locals[s].extracted[1]
        pending_standup == locals[s].pending_standup IN
    [user_name        |-> extracted.user_name,
     report_date      |-> locals[s].report_date,
     submitted_at     |-> locals[s].submitted_at,
     raw_message      |-> IF pending_standup = <<>>
                          THEN [message |-> Message, name |-> None, original |-> <<>>]
                          ELSE [message |-> None, name |-> extracted.user_name,
                                original |-> pending_standup],
     yesterday_work   |-> extracted.yesterday_work,
     today_plan       |-> extracted.today_plan,
     blockers         |-> extracted.blockers,
     additional_notes |-> extracted.additional_notes,
     is_within_window |-> TRUE]

\* lines 152-182: the insert returns, and the turn ends
SubmitSave(s) ==
    /\ pc[s] = "save"
    /\ \E db_ok \in BOOLEAN :
          LET had == RowsFor(standup_reports, NewReport(s).user_name,
                             NewReport(s).report_date) # {}
              saved == save_standup_report(NewReport(s), db_ok)
              o == [obs[s] EXCEPT !.save_attempts = @ + 1,
                                  !.carried_new_values = NewReport(s) \notin standup_reports,
                                  !.save_returned = IF saved.success THEN "True" ELSE "False",
                                  !.save_result = IF ~db_ok THEN "db_error"
                                                  ELSE IF had THEN "conflict"
                                                  ELSE "inserted"] IN
          /\ standup_reports' = saved.reports
          /\ daily_summaries' = saved.summaries
          /\ Return(s, state[s], o, IF saved.success THEN "success" ELSE "save_error")
    /\ UNCHANGED <<clock, turns, request, call>>

\* ---- get_summary (src/src/tools/get_summary.py) -----------------------------
\* strftime("%I:%M %p WAT"): the time of day of a timestamp, without its date
strftime(timestamp) == timestamp.time

\* the fallback summary of lines 94-106: one entry per report
FallbackSummary(reports) ==
    [llm |-> None,
     fallback |-> {<<r.user_name, r.today_plan, r.blockers>> : r \in reports}]

\* faulty variant: every date without reports is answered as today
NoReportsMessage_AlwaysToday(target_date, today) == "no_reports_yet_today"

\* lines 70-78: which of the two no-reports messages is returned
NoReportsMessage(target_date, today) ==
    IF target_date = today THEN "no_reports_yet_today" ELSE "no_reports_found"

\* faulty variant: the tool resets the state of the session it runs in
ContextState_Reset(s) == EmptyState

\* the context argument of get_summary and get_user_summary is never written:
\* the session's state after the tool is its state before
ContextState(s) == state[s]

\* lines 48-65: the date is parsed and the cache lookup returns (or fails)
GetSummaryStart(s) ==
    /\ pc[s] = "idle"
    /\ turns' = turns + 1
    /\ \E query \in DateQueries, db_ok \in BOOLEAN :
          LET parsed == parse_date_query(query)
              target_date == parsed.date
              cached == get_cached_summary(target_date)
              o == [NoObs EXCEPT !.op = "get_summary", !.state_before = state[s],
                                 !.target_date = target_date,
                                 !.rows_before = Cardinality(
                                     {r \in standup_reports : r.report_date = target_date}),
                                 !.cache_hit =
                                     {r \in daily_summaries : r.summary_date = target_date}] IN
          IF parsed.raised = "ValueError"
          THEN Return(s, ContextState(s), [NoObs EXCEPT !.op = "get_summary",
                                                 !.state_before = state[s]],
                      "date_not_understood")
          ELSE IF parsed.raised # "none" \/ ~db_ok
          THEN Return(s, ContextState(s), [o EXCEPT !.cache_hit = {}], "exception")
          ELSE IF cached # {}
          THEN LET row == CHOOSE r \in cached : TRUE IN
               Return(s, ContextState(s),
                      [o EXCEPT !.shown = [text         |-> row.full_summary,
                                           generated_at |-> strftime(row.generated_at),
                                           total        |-> row.total_submissions]],
                      "cached_summary")
          ELSE /\ pc' = [pc EXCEPT ![s] = "fetch_reports"]
               /\ obs' = [obs EXCEPT ![s] = o]
               /\ locals' = [locals EXCEPT ![s] = [NoLocals EXCEPT !.target_date = target_date]]
               /\ state' = state
    /\ UNCHANGED <<clock, standup_reports, daily_summaries, request, call>>

\* lines 67-109: the reports come back (or the query fails); with none the
\* turn ends, otherwise the LLM writes the summary or the fallback does
GetSummaryFetch(s) ==
    /\ pc[s] = "fetch_reports"
    /\ \E db_ok \in BOOLEAN :
          LET reports == get_daily_reports(locals[s].target_date)
              o == [obs[s] EXCEPT !.report_fetches = @ + 1] IN
          IF ~db_ok
          THEN Return(s, ContextState(s), o, "exception")
          ELSE IF reports = {}
          THEN Return(s, ContextState(s), o, NoReportsMessage(locals[s].target_date, get_today_wat))
          ELSE \E out \in {"fail"} \cup SummaryTexts :
                  /\ pc' = [pc EXCEPT ![s] = "cache_summary"]
                  /\ obs' = [obs EXCEPT ![s] = [o EXCEPT !.llm_calls = @ + 1]]
                  /\ locals' = [locals EXCEPT ![s] =
                        [@ EXCEPT !.reports = reports,
                                  !.summary_text = IF out = "fail"
                                                   THEN FallbackSummary(reports)
                                                   ELSE [llm |-> out, fallback |-> {}],
                                  !.generated_at = get_current_wat_time]]
                  /\ state' = state
    /\ UNCHANGED <<clock, standup_reports, daily_summaries, turns, request, call>>

\* lines 110-121: the cache write returns (or fails), and the turn ends
GetSummaryCache(s) ==
    /\ pc[s] = "cache_summary"
    /\ \E db_ok \in BOOLEAN :
          IF ~db_ok
          THEN /\ Return(s, ContextState(s), obs[s], "exception")
               /\ daily_summaries' = daily_summaries
          ELSE /\ daily_summaries' =
                     cache_summary(daily_summaries, locals[s].target_date,
                                   locals[s].summary_text,
                                   Cardinality(locals[s].reports),
                                   locals[s].generated_at)
               /\ Return(s, ContextState(s),
                         [obs[s] EXCEPT !.cache_writes = @ + 1,
                                        !.cache_overwrote =
                                            get_cached_summary(locals[s].target_date) # {},
                                        !.shown = [text         |-> locals[s].summary_text,
                                                   generated_at |-> strftime(locals[s].generated_at),
                                                   total        |-> Cardinality(locals[s].reports)]],
                         "generated_summary")
    /\ UNCHANGED <<clock, standup_reports, turns, request, call>>

\* ---- get_user_summary (src/src/tools/get_user_summary.py) -------------------
\* the whole call: names from the LLM, the range from the parser, one query
get_user_summary(s, ExtractedLists, Queries) ==
    /\ pc[s] = "idle"
    /\ turns' = turns + 1
    /\ \E llm_ok \in BOOLEAN, out \in ExtractedLists, query \in Queries,
          db_ok \in BOOLEAN :
          LET o == [NoObs EXCEPT !.op = "get_user_summary", !.state_before = state[s]] IN
          IF ~llm_ok \/ out = <<>>
          THEN Return(s, ContextState(s), o, "names_not_identified")
          ELSE
          LET user_names == out
              range == parse_date_range_query(query)
              reports_by_date ==
                  get_reports_by_users_and_date_range(user_names, range.start_date,
                                                      range.end_date)
              total_days == range.end_date - range.start_date + 1
              total_possible_submissions == Len(user_names) * total_days
              actual_submissions ==
                  Cardinality({c \in (DOMAIN reports_by_date) \X Elems(user_names) :
                                  reports_by_date[c[1]][c[2]] # <<>>}) IN
          IF range.raised = "ValueError"
          THEN Return(s, ContextState(s), o, "date_range_not_understood")
          ELSE IF range.raised # "none" \/ ~db_ok
          THEN Return(s, ContextState(s), o, "exception")
          ELSE IF DOMAIN reports_by_date = {}
          THEN Return(s, ContextState(s), o, "no_standup_data")
          ELSE IF total_possible_submissions = 0
          THEN Return(s, ContextState(s),
                      [o EXCEPT !.stats = [total_days |-> total_days,
                                           tracked    |-> Len(user_names),
                                           actual     |-> actual_submissions,
                                           possible   |-> total_possible_submissions]],
                      "exception")
          ELSE Return(s, ContextState(s),
                      [o EXCEPT !.reports_by_date = reports_by_date,
                                !.stats = [total_days |-> total_days,
                                           tracked    |-> Len(user_names),
                                           actual     |-> actual_submissions,
                                           possible   |-> total_possible_submissions]],
                      "user_summary")
    /\ UNCHANGED <<clock, standup_reports, daily_summaries, request, call>>

\* a query about known team members over today or yesterday
GetUserSummary(s) == get_user_summary(s, NameLists, RangeQueries)

\* any list of names the extraction can return, over any range query
GetUserSummaryAnyRange(s) == get_user_summary(s, ExtractedNameLists, RangeParserQueries)

\* the reply leaves the process and the session is ready for its next turn
Respond(s) ==
    /\ pc[s] = "done"
    /\ pc' = [pc EXCEPT ![s] = "idle"]
    /\ obs' = [obs EXCEPT ![s] = NoObs]
    /\ UNCHANGED <<clock, standup_reports, daily_summaries, state, locals, turns, request, call>>

\* ---- handle_rpc (src/main.py) -------------------------------------------------
\* str.lower() on the words of Methods
Lower(word) == IF word = "SEND" THEN "send" ELSE word

\* faulty variant: every method is routed to the agent
SupportedMethod_Any(method) == TRUE

\* line 227: method and ("message" in method.lower() or "send" in method.lower())
SupportedMethod(method) ==
    /\ ~method.null
    /\ method.words # <<>>
    /\ \E i \in 1..Len(method.words) : Lower(method.words[i]) \in {"message", "send"}

\* line 199: "jsonrpc" in body and "method" in body
is_telex_format(body) == body.jsonrpc /\ body.method_key

\* lines 380-399: the reply to an exception e raised while body was handled
ExceptionReply(body, e) ==
    IF body.kind = "dict" /\ body.jsonrpc
    THEN Reply("jsonrpc_error", -32603, 500, <<"Internal error: ", e>>)
    ELSE Reply("flat_error", 0, 500, <<e>>)

\* lines 287-295 and 375-378: the reply that carries the agent's response text
SuccessReply(format, text) ==
    IF format = "jsonrpc"
    THEN Reply("jsonrpc_result", 0, 200, text)
    ELSE Reply("flat_response", 0, 200, text)

\* what the handler reads of a body after validation: its keys, and its method
\* for the reply
Validated(body) == [body EXCEPT !.text = Message]

\* faulty variant: no message text is taken for missing
MessageMissing_Never(text) == FALSE

\* lines 230 and 322: not message_text, not message
MessageMissing(text) == text = ""

\* lines 195-238 and 307-326: a request arrives; its body is parsed, its format
\* detected, its method and message text validated
Receive(s) ==
    /\ request[s].stage \in {"none", "replied"}
    /\ pc[s] = "idle"
    /\ \E body \in Bodies :
          LET format == IF is_telex_format(body) THEN "jsonrpc" ELSE "simple"
              r == [request[s] EXCEPT !.stage = "replied", !.body = body,
                                      !.format = format, !.session_lookups = 0,
                                      !.agent_runs = 0, !.reply = NoReply]
              rejected(reply) == [r EXCEPT !.reply = reply] IN
          request' = [request EXCEPT ![s] =
              IF body.kind = "not_json"
              THEN [rejected(ExceptionReply(body, "json_error_text"))
                       EXCEPT !.format = "none"]
              ELSE IF body.kind = "list"
              THEN rejected(ExceptionReply(body, "attribute_error_text"))
              ELSE IF is_telex_format(body)
              THEN IF ~body.params_ok
                   THEN rejected(ExceptionReply(body, "attribute_error_text"))
                   ELSE IF ~SupportedMethod(body.method)
                   THEN rejected(Reply("jsonrpc_error", -32601, 200,
                                       <<"method_not_supported">>))
                   ELSE IF MessageMissing(body.text)
                   THEN rejected(Reply("jsonrpc_error", -32602, 200,
                                       <<"message_text_required">>))
                   ELSE [r EXCEPT !.stage = "session"]
              ELSE IF MessageMissing(body.text)
                   THEN rejected(Reply("flat_error", 0, 400, <<"message_required">>))
                   ELSE [r EXCEPT !.stage = "session"]]
    /\ UNCHANGED <<clock, standup_reports, daily_summaries, state, pc, locals, obs,
                   turns, call>>

\* lines 244-266 and 333-355: get_session and create_session return (or fail),
\* and the agent is run on the message
GetSession(s) ==
    /\ request[s].stage = "session"
    /\ \E db_ok \in BOOLEAN :
          request' = [request EXCEPT ![s] =
              IF ~db_ok
              THEN [@ EXCEPT !.stage = "replied",
                             !.session_lookups = @ + 1,
                             !.reply = ExceptionReply(request[s].body, "db_error_text")]
              ELSE [@ EXCEPT !.stage = "agent",
                             !.body = Validated(@),
                             !.session = "stored",
                             !.session_lookups = @ + 1,
                             !.agent_runs = @ + 1]]
    /\ UNCHANGED <<clock, standup_reports, daily_summaries, state, pc, locals, obs,
                   turns, call>>

\* the agent of the request's run may call a tool
AgentMayCall(s) == request[s].stage = "agent" /\ turns < MaxTurns

\* lines 266-295 and 355-378: the agent answers without a tool, or the run raises
AgentDirect(s) ==
    /\ request[s].stage = "agent"
    /\ pc[s] = "idle"
    /\ \E llm_ok \in BOOLEAN :
          request' = [request EXCEPT ![s] =
              [@ EXCEPT !.stage = "replied",
                        !.reply = IF llm_ok
                                  THEN SuccessReply(request[s].format, <<"agent_text">>)
                                  ELSE ExceptionReply(request[s].body, "llm_error_text")]]
    /\ UNCHANGED <<clock, standup_reports, daily_summaries, state, pc, locals, obs,
                   turns, call>>

\* faulty variant: an exception of the tool ends the handler without a reply
AgentReplies_NoneOnException(s) ==
    IF obs[s].response = "exception"
    THEN {}
    ELSE {SuccessReply(request[s].format, <<obs[s].response>>),
          SuccessReply(request[s].format, <<"agent_text">>)}

\* the replies handle_rpc can give once the tool of the run has returned or
\* raised (lines 287-295, 375-378 and 380-399)
AgentReplies(s) ==
    IF obs[s].response = "exception"
    THEN {ExceptionReply(request[s].body, "db_error_text"),
          SuccessReply(request[s].format, <<"agent_text">>)}
    ELSE {SuccessReply(request[s].format, <<obs[s].response>>),
          SuccessReply(request[s].format, <<"agent_text">>)}

\* lines 266-295 and 355-378: the tool has returned or raised. Its result, or the
\* agent's wording of it, becomes the response text; an exception of the tool
\* leaves run_async, or the agent framework has the agent answer in its place
AgentFinish(s) ==
    /\ request[s].stage = "agent"
    /\ pc[s] = "done"
    /\ \E reply \in AgentReplies(s) :
          request' = [request EXCEPT ![s] = [@ EXCEPT !.stage = "replied",
                                                      !.reply = reply]]
    /\ pc' = [pc EXCEPT ![s] = "idle"]
    /\ obs' = [obs EXCEPT ![s] = NoObs]
    /\ UNCHANGED <<clock, standup_reports, daily_summaries, state, locals, turns, call>>

\* the steps of the handler of session s that follow the request's arrival
HandlerStep(s) ==
    \/ GetSession(s)
    \/ SubmitWindowMessage(s)
    \/ SubmitCheckDuplicate(s)
    \/ SubmitSave(s)
    \/ GetSummaryFetch(s)
    \/ GetSummaryCache(s)
    \/ AgentDirect(s)
    \/ AgentFinish(s)

\* ---- the submission workflow alone ------------------------------------------
NextSubmission ==
    \/ Tick
    \/ \E s \in Sessions : turns < MaxSubmissionTurns /\ SubmitStart(s)
    \/ \E s \in Sessions : SubmitWindowMessage(s)
    \/ \E s \in Sessions : SubmitCheckDuplicate(s)
    \/ \E s \in Sessions : SubmitSave(s)
    \/ \E s \in Sessions : Respond(s)

SpecSubmission == Init /\ [][NextSubmission]_vars

\* ---- the conversation of one session: turn after turn ---------------------
\* the session whose conversation is followed
ConversationSessions == {"s1"}

NextConversation ==
    \/ Tick
    \/ \E s \in ConversationSessions : turns < MaxTurns /\ SubmitStart(s)
    \/ \E s \in ConversationSessions : SubmitWindowMessage(s)
    \/ \E s \in ConversationSessions : SubmitCheckDuplicate(s)
    \/ \E s \in ConversationSessions : SubmitSave(s)
    \/ \E s \in ConversationSessions : Respond(s)

SpecConversation == Init /\ [][NextConversation]_vars

\* ---- the summary cache: submissions and team summaries ----------------------
\* a submission turn whose LLM answer is complete: a name and a plan for today
SubmitNamed(s) == submit_standup(s, Users, TypicalPayloads)

NextCache ==
    \/ Tick
    \/ \E s \in Sessions : turns < MaxCacheTurns /\ SubmitNamed(s)
    \/ \E s \in Sessions : SubmitWindowMessage(s)
    \/ \E s \in Sessions : SubmitCheckDuplicate(s)
    \/ \E s \in Sessions : SubmitSave(s)
    \/ \E s \in Sessions : turns < MaxCacheTurns /\ GetSummaryStart(s)
    \/ \E s \in Sessions : GetSummaryFetch(s)
    \/ \E s \in Sessions : GetSummaryCache(s)
    \/ \E s \in Sessions : Respond(s)

SpecCache == Init /\ [][NextCache]_vars

\* ---- get_summary next to submissions, for a few turns ------------------------
NextSummary ==
    \/ Tick
    \/ \E s \in Sessions : turns < MaxSummaryTurns /\ SubmitNamed(s)
    \/ \E s \in Sessions : SubmitWindowMessage(s)
    \/ \E s \in Sessions : SubmitCheckDuplicate(s)
    \/ \E s \in Sessions : SubmitSave(s)
    \/ \E s \in Sessions : turns < MaxSummaryTurns /\ GetSummaryStart(s)
    \/ \E s \in Sessions : GetSummaryFetch(s)
    \/ \E s \in Sessions : GetSummaryCache(s)
    \/ \E s \in Sessions : Respond(s)

SpecSummary == Init /\ [][NextSummary]_vars

\* ---- get_summary over a database that already holds a report ----------------
\* the row a submission of the day before the start left in standup_reports
EarlierReport ==
    [user_name        |-> "Ada",
     report_date      |-> 0,
     submitted_at     |-> [day |-> 0, time |-> WINDOW_END],
     raw_message      |-> [message |-> Message, name |-> None, original |-> <<>>],
     yesterday_work   |-> None,
     today_plan       |-> "p1",
     blockers         |-> None,
     additional_notes |-> None,
     is_within_window |-> TRUE]

\* the clock stays at the last instant of the window of day 1
InitRegeneration ==
    /\ clock = [day |-> 1, tp |-> 2]
    /\ standup_reports = {EarlierReport}
    /\ daily_summaries = {}
    /\ state = [s \in Sessions |-> EmptyState]
    /\ pc = [s \in Sessions |-> "idle"]
    /\ locals = [s \in Sessions |-> NoLocals]
    /\ obs = [s \in Sessions |-> NoObs]
    /\ turns = 0
    /\ request = [s \in Sessions |-> NoRequest]
    /\ call = NoCall

NextRegeneration ==
    \/ \E s \in Sessions : turns < MaxRegenerationTurns /\ SubmitNamed(s)
    \/ \E s \in Sessions : SubmitCheckDuplicate(s)
    \/ \E s \in Sessions : SubmitSave(s)
    \/ \E s \in Sessions : turns < MaxRegenerationTurns /\ GetSummaryStart(s)
    \/ \E s \in Sessions : GetSummaryFetch(s)
    \/ \E s \in Sessions : GetSummaryCache(s)
    \/ \E s \in Sessions : Respond(s)

SpecRegeneration == InitRegeneration /\ [][NextRegeneration]_vars

\* ---- get_user_summary over stored reports, any names and any range ----------
NextUserSummary ==
    \/ \E s \in Sessions : turns < MaxUserSummaryTurns /\ SubmitNamed(s)
    \/ \E s \in Sessions : SubmitCheckDuplicate(s)
    \/ \E s \in Sessions : SubmitSave(s)
    \/ \E s \in Sessions : turns < MaxUserSummaryTurns /\ GetUserSummaryAnyRange(s)
    \/ \E s \in Sessions : Respond(s)

SpecUserSummary == InitRegeneration /\ [][NextUserSummary]_vars

\* ---- message text extraction (src/src/utils/a2a_serializer.py) --------------
\* the values a "text" key can hold: missing or None, markup without text,
\* markup around text, plain text
RawTexts == {None, "<p></p>", "<p>a</p>", "b"}

\* _clean_html: tags removed, &nbsp; replaced, the result stripped
_clean_html(raw_html) ==
    IF Falsy(raw_html) THEN ""
    ELSE IF raw_html = "<p></p>" THEN ""
    ELSE IF raw_html = "<p>a</p>" THEN "a"
    ELSE raw_html

\* the items of the history a data part carries
DataItems ==
    {[kind |-> "text", text |-> x] : x \in RawTexts} \cup {[kind |-> "other", text |-> "b"]}
\* histories, oldest item first
DataArrays ==
    {<<>>} \cup {<<i>> : i \in DataItems} \cup {<<i, j>> : i, j \in DataItems}
\* the parts of a message
MessageParts ==
    {[kind |-> "data", data |-> d, text |-> None] : d \in DataArrays}
    \cup {[kind |-> "text", data |-> <<>>, text |-> x] : x \in RawTexts}
    \cup {[kind |-> "other", data |-> <<>>, text |-> "b"]}
PartsArrays ==
    {<<>>} \cup {<<x>> : x \in MessageParts} \cup {<<x, y>> : x, y \in MessageParts}
\* the content array of the alternative structure
ContentArrays ==
    {<<>>}
    \cup {<<[type |-> "text", text |-> x]>> : x \in RawTexts \ {None}}
    \cup {<<[type |-> "other", text |-> "b"]>>}
    \cup {<<[type |-> "text", text |-> "<p></p>"], [type |-> "text", text |-> "<p>a</p>"]>>}
\* message objects: parts, the direct text, the content array and a text
\* nested in the metadata
TelexMessages ==
    [parts : PartsArrays, text : RawTexts, content : ContentArrays,
     metadata : [text : {None, "b"}]]

\* faulty variant: the oldest text item of the history is taken
LatestHistoryText_Oldest(data_array, n) ==
    LET usable == {i \in 1..n : /\ data_array[i].kind = "text"
                                /\ data_array[i].text # None
                                /\ _clean_html(data_array[i].text) # ""} IN
    IF usable = {} THEN ""
    ELSE _clean_html(data_array[CHOOSE i \in usable : \A j \in usable : i <= j].text)

\* lines 70-78: for data_item in reversed(data_array), over its first n items
RECURSIVE LatestHistoryText(_, _)
LatestHistoryText(data_array, n) ==
    IF n = 0 THEN ""
    ELSE LET data_item == data_array[n] IN
         IF /\ data_item.kind = "text"
            /\ data_item.text # None
            /\ _clean_html(data_item.text) # ""
         THEN _clean_html(data_item.text)
         ELSE LatestHistoryText(data_array, n - 1)

\* next((p for p in parts if ...), None): the index of the first part that is
\* in matching, 0 when there is none
FirstPart(matching) ==
    IF matching = {} THEN 0 ELSE CHOOSE i \in matching : \A j \in matching : i <= j

\* lines 63-78: the data part holding the history
TextOfDataPart(parts) ==
    LET data_part == FirstPart({i \in DOMAIN parts :
                                   parts[i].kind = "data" /\ parts[i].data # <<>>}) IN
    IF data_part = 0 THEN ""
    ELSE LatestHistoryText(parts[data_part].data, Len(parts[data_part].data))

\* lines 80-85: the first text part
TextOfTextPart(parts) ==
    LET text_part == FirstPart({i \in DOMAIN parts :
                                   parts[i].kind = "text" /\ ~Falsy(parts[i].text)}) IN
    IF text_part = 0 THEN "" ELSE _clean_html(parts[text_part].text)

\* lines 93-102: for item in content, over the items from index i on
RECURSIVE TextOfContent(_, _)
TextOfContent(content, i) ==
    IF i > Len(content) THEN ""
    ELSE IF /\ content[i].type = "text"
            /\ content[i].text # None
            /\ _clean_html(content[i].text) # ""
    THEN _clean_html(content[i].text)
    ELSE TextOfContent(content, i + 1)

\* find_text_recursive on a list of dicts without nested lists, from index i on
RECURSIVE FindTextInItems(_, _)
FindTextInItems(items, i) ==
    IF i > Len(items) THEN ""
    ELSE IF items[i].text # None /\ _clean_html(items[i].text) # ""
    THEN _clean_html(items[i].text)
    ELSE FindTextInItems(items, i + 1)

\* find_text_recursive on the parts, from index i on: the part's own text,
\* then its values
RECURSIVE FindTextInParts(_, _)
FindTextInParts(parts, i) ==
    IF i > Len(parts) THEN ""
    ELSE IF parts[i].text # None /\ _clean_html(parts[i].text) # ""
    THEN _clean_html(parts[i].text)
    ELSE IF FindTextInItems(parts[i].data, 1) # ""
    THEN FindTextInItems(parts[i].data, 1)
    ELSE FindTextInParts(parts, i + 1)

\* lines 104-123: find_text_recursive(message), the keys of the message in the
\* order parts, text, content, metadata
find_text_recursive(message) ==
    IF message.text # None /\ _clean_html(message.text) # ""
    THEN _clean_html(message.text)
    ELSE IF FindTextInParts(message.parts, 1) # ""
    THEN FindTextInParts(message.parts, 1)
    ELSE IF FindTextInItems(message.content, 1) # ""
    THEN FindTextInItems(message.content, 1)
    ELSE _clean_html(message.metadata.text)

\* extract_text_from_telex_message, lines 40-125
extract_text_from_telex_message(message) ==
    IF TextOfDataPart(message.parts) # "" THEN TextOfDataPart(message.parts)
    ELSE IF TextOfTextPart(message.parts) # "" THEN TextOfTextPart(message.parts)
    ELSE IF message.text # None /\ _clean_html(message.text) # ""
    THEN _clean_html(message.text)
    ELSE IF TextOfContent(message.content, 1) # "" THEN TextOfContent(message.content, 1)
    ELSE find_text_recursive(message)

\* ---- the webhook: requests routed to the agent and its tools ----------------
\* the sessions whose requests are followed through the handler
RequestSessions == {"s1"}

NextRequest ==
    \/ Tick
    \/ \E s \in RequestSessions : Receive(s)
    \/ \E s \in RequestSessions : GetSession(s)
    \/ \E s \in RequestSessions : AgentMayCall(s) /\ SubmitNamed(s)
    \/ \E s \in RequestSessions : SubmitWindowMessage(s)
    \/ \E s \in RequestSessions : SubmitCheckDuplicate(s)
    \/ \E s \in RequestSessions : SubmitSave(s)
    \/ \E s \in RequestSessions : AgentMayCall(s) /\ GetSummaryStart(s)
    \/ \E s \in RequestSessions : GetSummaryFetch(s)
    \/ \E s \in RequestSessions : GetSummaryCache(s)
    \/ \E s \in RequestSessions : AgentMayCall(s) /\ GetUserSummary(s)
    \/ \E s \in RequestSessions : AgentDirect(s)
    \/ \E s \in RequestSessions : AgentFinish(s)

SpecRequest == Init /\ [][NextRequest]_vars

\* every await of a handler returns or raises, and the handler goes on
SpecRequestLive == SpecRequest /\ \A s \in RequestSessions : WF_vars(HandlerStep(s))

\* ---- direct calls of the parser and of the range query -----------------------
\* parse_date_query(query) is called and returns or raises
CallParseDateQuery ==
    /\ call = NoCall
    /\ \A s \in Sessions : pc[s] = "idle"
    /\ \E query \in ParserQueries :
          LET parsed == parse_date_query(query) IN
          call' = [fn     |-> "parse_date_query",
                   args   |-> <<query, get_today_wat>>,
                   raised |-> parsed.raised,
                   result |-> IF parsed.raised = "none" THEN <<parsed.date>> ELSE <<>>]
    /\ UNCHANGED <<clock, standup_reports, daily_summaries, state, pc, locals, obs,
                   turns, request>>

\* get_reports_by_users_and_date_range(user_names, start_date, end_date) is
\* called and returns, or its query fails
CallGetReports ==
    /\ call = NoCall
    /\ \A s \in Sessions : pc[s] = "idle"
    /\ \E user_names \in UserNameLists, start_date \in 0..MaxRangeDay,
          end_date \in 0..MaxRangeDay, db_ok \in BOOLEAN :
          /\ start_date <= end_date
          /\ call' = [fn     |-> "get_reports_by_users_and_date_range",
                      args   |-> <<user_names, start_date, end_date>>,
                      raised |-> IF db_ok \/ user_names = <<>>
                                 THEN "none" ELSE "db_error",
                      result |-> IF db_ok \/ user_names = <<>>
                                 THEN <<get_reports_by_users_and_date_range(
                                           user_names, start_date, end_date)>>
                                 ELSE <<>>]
    /\ UNCHANGED <<clock, standup_reports, daily_summaries, state, pc, locals, obs,
                   turns, request>>

\* parse_date_range_query(query) is called and returns or raises
CallParseDateRangeQuery ==
    /\ call = NoCall
    /\ \A s \in Sessions : pc[s] = "idle"
    /\ \E query \in RangeParserQueries :
          LET parsed == parse_date_range_query(query) IN
          call' = [fn     |-> "parse_date_range_query",
                   args   |-> <<query, get_today_wat>>,
                   raised |-> parsed.raised,
                   result |-> IF parsed.raised = "none"
                              THEN <<parsed.start_date, parsed.end_date>> ELSE <<>>]
    /\ UNCHANGED <<clock, standup_reports, daily_summaries, state, pc, locals, obs,
                   turns, request>>

\* the caller has its answer
CallReturn ==
    /\ call # NoCall
    /\ call' = NoCall
    /\ UNCHANGED <<clock, standup_reports, daily_summaries, state, pc, locals, obs,
                   turns, request>>

NextCalls ==
    \/ Tick
    \/ \E s \in Sessions : call = NoCall /\ turns < MaxTurns /\ SubmitNamed(s)
    \/ \E s \in Sessions : SubmitWindowMessage(s)
    \/ \E s \in Sessions : SubmitCheckDuplicate(s)
    \/ \E s \in Sessions : SubmitSave(s)
    \/ \E s \in Sessions : Respond(s)
    \/ CallParseDateQuery
    \/ CallGetReports
    \/ CallReturn

SpecCalls == Init /\ [][NextCalls]_vars

\* ---- the date parsers on every day of a week ---------------------------------
\* the process is started on any of the days 1..MaxStartDay
InitDates ==
    /\ clock \in {[day |-> d, tp |-> 1] : d \in 1..MaxStartDay}
    /\ standup_reports = {}
    /\ daily_summaries = {}
    /\ state = [s \in Sessions |-> EmptyState]
    /\ pc = [s \in Sessions |-> "idle"]
    /\ locals = [s \in Sessions |-> NoLocals]
    /\ obs = [s \in Sessions |-> NoObs]
    /\ turns = 0
    /\ request = [s \in Sessions |-> NoRequest]
    /\ call = NoCall

NextDates ==
    \/ CallParseDateQuery
    \/ CallParseDateRangeQuery
    \/ CallReturn

SpecDates == InitDates /\ [][NextDates]_vars

\* ---- the window functions at every time of day -------------------------------
\* the values datetime.now(WAT).time() can take, in minutes since midnight
TimesOfDay == 0..(24 * 60 - 1)

\* is_within_window() and get_window_status(), both reading the clock value now
CallWindowFunctions ==
    /\ call = NoCall
    /\ \A s \in Sessions : pc[s] = "idle"
    /\ \E now \in TimesOfDay :
          call' = [fn     |-> "window",
                   args   |-> <<now>>,
                   raised |-> "none",
                   result |-> <<is_within_window(now), get_window_status(now)>>]
    /\ UNCHANGED <<clock, standup_reports, daily_summaries, state, pc, locals, obs,
                   turns, request>>

NextWindow ==
    \/ CallWindowFunctions
    \/ CallReturn

SpecWindow == Init /\ [][NextWindow]_vars

\* ---- the text extraction on every message of TelexMessages -------------------
\* a direct call of extract_text_from_telex_message
CallExtractText ==
    /\ call = NoCall
    /\ \A s \in Sessions : pc[s] = "idle"
    /\ \E message \in TelexMessages :
          call' = [fn     |-> "extract_text_from_telex_message",
                   args   |-> <<message>>,
                   raised |-> "none",
                   result |-> <<extract_text_from_telex_message(message)>>]
    /\ UNCHANGED <<clock, standup_reports, daily_summaries, state, pc, locals, obs,
                   turns, request>>

NextExtraction ==
    \/ CallExtractText
    \/ CallReturn

SpecExtraction == Init /\ [][NextExtraction]_vars

\* ---- the session key (src/src/utils/a2a_serializer.py) -----------------------
\* strings are sequences of characters here, so that two keys are equal only
\* when their texts are; an optional key of a JSON object is <<>> when it is
\* missing and <<value>> when it is present
Digits == <<"0", "1", "2", "3", "4", "5", "6", "7", "8", "9">>
TwoDigits(n) == <<Digits[(n \div 10) + 1], Digits[(n % 10) + 1]>>

\* the UTC dates of the requests: day 0 is 1 January 2025
UtcDays == 0..MaxUtcDay
\* datetime.utcnow().strftime("%d%m%Y")
strftime_ddmmYYYY(utc_day) ==
    (IF utc_day < 31
     THEN TwoDigits(utc_day + 1) \o TwoDigits(1)
     ELSE TwoDigits(utc_day - 30) \o TwoDigits(2))
    \o <<"2", "0", "2", "5">>

\* user ids of the metadata; the third is the key of the first on 1 January
TelexUserIds == {<<"u">>, <<"v">>, <<"u", "-", "0", "1", "0", "1", "2", "0", "2", "5">>}
\* the tokens built from uuid.uuid4()
FreshTelexContext == <<"telex-", "uuid4">>
FreshSession == <<"session-", "uuid4">>

\* request bodies: the keys of params and of the message's metadata that the
\* two functions read
TelexBodies ==
    [contextId        : {<<>>, <<<<"c", "1">>>>, <<<<>>>>},
     context_id       : {<<>>, <<<<"c", "2">>>>},
     telex_channel_id : {<<>>, <<<<"c", "3">>>>},
     channel_id       : {<<>>, <<<<"c", "4">>>>},
     conversation_id  : {<<>>, <<<<"c", "5">>>>},
     sessionId        : {<<>>, <<<<"c", "6">>>>},
     telex_user_id    : {<<>>} \cup {<<u>> : u \in TelexUserIds},
     user_id          : {<<>>, <<<<"v">>>>},
     userId           : {<<>>, <<<<>>>>, <<<<"u">>>>}]

\* faulty variant: the key is the user id alone
generate_daily_session_id_NoDate(telex_user_id, utc_day) == telex_user_id

\* generate_daily_session_id, lines 8-25
generate_daily_session_id(telex_user_id, utc_day) ==
    telex_user_id \o <<"-">> \o strftime_ddmmYYYY(utc_day)

\* extract_context_id, lines 128-168
extract_context_id(body) ==
    IF body.contextId # <<>> THEN body.contextId[1]
    ELSE IF body.context_id # <<>> THEN body.context_id[1]
    ELSE IF body.telex_channel_id # <<>> THEN body.telex_channel_id[1]
    ELSE IF body.channel_id # <<>> THEN body.channel_id[1]
    ELSE IF body.conversation_id # <<>> THEN body.conversation_id[1]
    ELSE IF body.sessionId # <<>> THEN body.sessionId[1]
    ELSE FreshTelexContext

\* metadata.get(key): the value, None when the key is missing (None and "" are
\* both falsy, both are the empty text here)
MetadataGet(field) == IF field = <<>> THEN <<>> ELSE field[1]

\* parse_telex_request, lines 171-227: the fields the session key depends on
parse_telex_request(body, utc_day) ==
    LET context_id == extract_context_id(body)
        telex_user_id ==
            IF MetadataGet(body.telex_user_id) # <<>> THEN MetadataGet(body.telex_user_id)
            ELSE IF MetadataGet(body.user_id) # <<>> THEN MetadataGet(body.user_id)
            ELSE IF MetadataGet(body.userId) # <<>> THEN MetadataGet(body.userId)
            ELSE <<>> IN
    [context_id    |-> context_id,
     telex_user_id |-> telex_user_id,
     session_id    |-> IF telex_user_id # <<>>
                       THEN generate_daily_session_id(telex_user_id, utc_day)
                       ELSE IF context_id # <<>> THEN context_id ELSE FreshSession]

\* a request is parsed on the UTC day utc_day
CallParseTelexRequest ==
    /\ call = NoCall
    /\ \A s \in Sessions : pc[s] = "idle"
    /\ \E body \in TelexBodies, utc_day \in UtcDays :
          LET parsed == parse_telex_request(body, utc_day) IN
          call' = [fn     |-> "parse_telex_request",
                   args   |-> <<body, utc_day>>,
                   raised |-> "none",
                   result |-> <<parsed.session_id, parsed.telex_user_id,
                                parsed.context_id>>]
    /\ UNCHANGED <<clock, standup_reports, daily_summaries, state, pc, locals, obs,
                   turns, request>>

NextSessionKey ==
    \/ CallParseTelexRequest
    \/ CallReturn

SpecSessionKey == Init /\ [][NextSessionKey]_vars

\* ---- the whole program ------------------------------------------------------
\* a submission turn whose LLM answer is well formed: a name or none, and a
\* payload with a plan for today
SubmitTypical(s) == submit_standup(s, {None} \cup Users, TypicalPayloads)

Next ==
    \/ Tick
    \/ \E s \in Sessions : turns < MaxTurns /\ SubmitTypical(s)
    \/ \E s \in Sessions : SubmitWindowMessage(s)
    \/ \E s \in Sessions : SubmitCheckDuplicate(s)
    \/ \E s \in Sessions : SubmitSave(s)
    \/ \E s \in Sessions : turns < MaxTurns /\ GetSummaryStart(s)
    \/ \E s \in Sessions : GetSummaryFetch(s)
    \/ \E s \in Sessions : GetSummaryCache(s)
    \/ \E s \in Sessions : turns < MaxTurns /\ GetUserSummary(s)
    \/ \E s \in Sessions : Respond(s)

Spec == Init /\ [][Next]_vars

\* ---- summaries requested in the middle of a submission conversation ---------
NextReadOnly ==
    \/ \E s \in Sessions : turns < MaxReadOnlyTurns /\ SubmitTypical(s)
    \/ \E s \in Sessions : SubmitCheckDuplicate(s)
    \/ \E s \in Sessions : SubmitSave(s)
    \/ \E s \in Sessions : turns < MaxReadOnlyTurns /\ GetSummaryStart(s)
    \/ \E s \in Sessions : GetSummaryFetch(s)
    \/ \E s \in Sessions : GetSummaryCache(s)
    \/ \E s \in Sessions : turns < MaxReadOnlyTurns /\ GetUserSummary(s)
    \/ \E s \in Sessions : Respond(s)

SpecReadOnly == InitRegeneration /\ [][NextReadOnly]_vars

(***************************************************************************)
(* Properties.                                                             *)
(***************************************************************************)
\* the submission turns that have returned
DoneSubmits == {s \in Sessions : pc[s] = "done" /\ obs[s].op = "submit_standup"}
\* the team summary turns that have returned
DoneSummaries == {s \in Sessions : pc[s] = "done" /\ obs[s].op = "get_summary"}
\* the rows stored for the key a submission turn validated
KeyRows(s) == RowsFor(standup_reports, obs[s].user_name, obs[s].report_date)
\* the answers get_window_message can give
WindowMessages == {"window_before", "window_during", "window_after"}
\* the four cached fields of a row
PayloadOf(r) ==
    [yesterday_work |-> r.yesterday_work, today_plan |-> r.today_plan,
     blockers |-> r.blockers, additional_notes |-> r.additional_notes]

\* C1: in every reachable state the report store holds at most one row per
\* (user_name, report_date) pair, whatever the interleaving of submissions.
C1_OneRowPerUserAndDate ==
    \A r1, r2 \in standup_reports :
        (r1.user_name = r2.user_name /\ r1.report_date = r2.report_date) => r1 = r2

\* a second insert for a stored key was attempted, and one row is there
C1_Witness ==
    \E s \in DoneSubmits :
        /\ obs[s].save_result = "conflict"
        /\ Cardinality(KeyRows(s)) = 1

\* C2: when two submissions for the same (user_name, report_date) both read
\* has_submitted_today as false before either inserts, exactly one row is
\* stored, the loser's save returns false without raising, and the loser is
\* not answered with an error.
C2_RaceLoserNotAnError ==
    \A s \in DoneSubmits :
        (obs[s].key_existed = "no" /\ obs[s].save_result = "conflict") =>
            /\ Cardinality(KeyRows(s)) = 1
            /\ obs[s].save_returned = "False"
            /\ obs[s].response \notin {"save_error", "exception"}

\* C3: a save for a (user_name, report_date) that already has a row returns
\* false and leaves the table, hence every field of the stored row, as it was.
C3_SecondSaveIsNoOp ==
    [][\A s \in Sessions :
          (/\ pc[s] = "save"
           /\ pc'[s] = "done"
           /\ RowsFor(standup_reports, NewReport(s).user_name,
                      NewReport(s).report_date) # {})
          => /\ standup_reports' = standup_reports
             /\ obs'[s].save_returned = "False"]_vars

\* a second save carried values the stored row does not have, and returned false
C3_Witness ==
    \E s \in DoneSubmits :
        /\ obs[s].save_result = "conflict"
        /\ obs[s].carried_new_values
        /\ obs[s].save_returned = "False"
        /\ Cardinality(KeyRows(s)) = 1

C5_SecondSubmissionIsDuplicate ==
    \A s \in Sessions :
        (obs[s].op = "submit_standup" /\ obs[s].key_existed = "yes")
        => /\ pc[s] = "done"
           /\ obs[s].response = "duplicate"
           /\ obs[s].save_attempts = 0
           /\ Cardinality(KeyRows(s)) = 1

\* a submission inside the window got the duplicate notice
C5_Witness ==
    \E s \in DoneSubmits :
        /\ obs[s].key_existed = "yes"
        /\ obs[s].response = "duplicate"
        /\ WINDOW_START <= obs[s].window_read /\ obs[s].window_read <= WINDOW_END

C7_StoredRowsPassedValidation ==
    \A r \in standup_reports :
        /\ r.user_name \notin {None, "", "null"}
        /\ r.today_plan \notin {None, "", "null"}
        /\ r.is_within_window = TRUE

\* a row is stored while a submission without a usable plan was turned away
C7_Witness ==
    /\ standup_reports # {}
    /\ \E s \in DoneSubmits :
          /\ obs[s].response = "need_today_plan"
          /\ obs[s].save_attempts = 0

\* C8: no step of any operation removes or changes a stored report: the set
\* of stored rows only grows.
C8_ReportsAppendOnly ==
    [][standup_reports \subseteq standup_reports']_vars

\* a stored row has outlived a conflicting save and a cache write
C8_Witness ==
    /\ daily_summaries # {}
    /\ \E s \in DoneSubmits :
          /\ obs[s].save_result = "conflict"
          /\ obs[s].carried_new_values
          /\ KeyRows(s) # {}

\* C9: once a report for date d is inserted, the next get_summary for d does
\* not answer from a summary of before the insert: the submission count it
\* reports includes every report of d stored when it was called.
C9_SummaryCountsStoredReports ==
    \A s \in DoneSummaries :
        obs[s].response \in {"cached_summary", "generated_summary"}
        => obs[s].shown.total >= obs[s].rows_before

\* C10: on a cache hit get_summary returns the cached text with the stored
\* generation time and submission count, and makes no LLM call, no report
\* fetch and no cache write.
C10_CacheHitReturnsStored ==
    \A s \in Sessions :
        (obs[s].op = "get_summary" /\ obs[s].cache_hit # {})
        => /\ pc[s] = "done"
           /\ obs[s].response = "cached_summary"
           /\ obs[s].llm_calls = 0
           /\ obs[s].report_fetches = 0
           /\ obs[s].cache_writes = 0
           /\ \E r \in obs[s].cache_hit :
                 obs[s].shown = [text         |-> r.full_summary,
                                 generated_at |-> r.generated_at.time,
                                 total        |-> r.total_submissions]

\* a summary request was answered from the cache
C10_Witness ==
    \E s \in DoneSummaries :
        /\ obs[s].cache_hit # {}
        /\ obs[s].response = "cached_summary"
        /\ obs[s].shown.total >= 1

\* C11: the cache never holds two rows of one summary_date, and a cache_summary
\* call for date d leaves get_cached_summary(d) returning exactly the text,
\* count and time it was given, whether or not a row for d existed, and leaves
\* the rows of other dates as they were.
C11_CacheUpsert ==
    /\ [](\A r1, r2 \in daily_summaries :
              r1.summary_date = r2.summary_date => r1 = r2)
    /\ [][\A s \in Sessions :
              (pc[s] = "cache_summary" /\ pc'[s] = "done" /\ obs'[s].cache_writes = 1)
              => /\ {r \in daily_summaries' : r.summary_date = locals[s].target_date}
                    = {[summary_date      |-> locals[s].target_date,
                        full_summary      |-> locals[s].summary_text,
                        total_submissions |-> Cardinality(locals[s].reports),
                        generated_at      |-> locals[s].generated_at]}
                 /\ {r \in daily_summaries' : r.summary_date # locals[s].target_date}
                    = {r \in daily_summaries : r.summary_date # locals[s].target_date}]_vars

\* a regeneration wrote over the row a concurrent regeneration had cached
C11_Witness ==
    \E s \in DoneSummaries :
        /\ obs[s].cache_writes = 1
        /\ obs[s].cache_overwrote
        /\ \E r \in daily_summaries :
              /\ get_cached_summary(obs[s].target_date) = {r}
              /\ r.full_summary = obs[s].shown.text
              /\ r.total_submissions = obs[s].shown.total

\* ---- C12 --------------------------------------------------------------------
\* a completed direct call of the range query
RangeCalled ==
    /\ call.fn = "get_reports_by_users_and_date_range"
    /\ call.raised = "none"

\* the returned map holds one key per date of the range and, under each date,
\* one entry per requested user: the stored report or the absent marker
FullRangeMap(m, user_names, start_date, end_date) ==
    /\ DOMAIN m = start_date..end_date
    /\ \A d \in start_date..end_date :
          /\ DOMAIN m[d] = Elems(user_names)
          /\ \A u \in Elems(user_names) :
                IF \E r \in standup_reports : r.user_name = u /\ r.report_date = d
                THEN \E r \in standup_reports :
                        /\ r.user_name = u /\ r.report_date = d
                        /\ m[d][u] = <<SelectedColumns(r)>>
                ELSE m[d][u] = <<>>
    /\ Cardinality({<<d, u>> \in (start_date..end_date) \X Users :
                       d \in DOMAIN m /\ u \in DOMAIN m[d]})
         = (end_date - start_date + 1) * Len(user_names)

\* C12 as stated: for every list of distinct user names and every range
\* d1 <= d2 the returned map has one key per date and one entry per user
C12_EveryListGetsEveryDate ==
    RangeCalled =>
        FullRangeMap(call.result[1], call.args[1], call.args[2], call.args[3])

\* C12: for a non-empty list of distinct user names and a range d1 <= d2,
\* get_reports_by_users_and_date_range returns one key per date, one entry per
\* requested user under each date, (d2-d1+1) * |users| entries in total, each
\* the stored report or the absent marker; for the empty list it returns the
\* empty map, with no date keys
C12_RangeMapIsTotal ==
    RangeCalled =>
        IF call.args[1] = <<>>
        THEN DOMAIN call.result[1] = {}
        ELSE FullRangeMap(call.result[1], call.args[1], call.args[2], call.args[3])

C12_Witness ==
    /\ RangeCalled
    /\ Len(call.args[1]) = 2
    /\ call.args[2] < call.args[3]
    /\ \E d \in DOMAIN call.result[1] : \E u, v \in DOMAIN call.result[1][d] :
          call.result[1][d][u] # <<>> /\ call.result[1][d][v] = <<>>

\* ---- C13 --------------------------------------------------------------------
\* the handler of s has taken a request whose message text was extracted and
\* is empty
EmptyTextRequest(s) ==
    /\ request[s].stage # "none"
    /\ request[s].body.kind = "dict"
    /\ request[s].format = "jsonrpc" => request[s].body.params_ok
    /\ request[s].body.text = ""

\* the request of s was answered before any session was looked up or created
\* and before the agent was run
RejectedBeforeSession(s) ==
    /\ request[s].stage = "replied"
    /\ request[s].session_lookups = 0
    /\ request[s].agent_runs = 0
    /\ pc[s] = "idle"

OtherMethods == {MethodNull, Method(<<>>), Method(<<"tasks", "get">>)}

\* the handler of s has taken a JSON-RPC request with such a method
OtherMethodRequest(s) ==
    /\ request[s].stage # "none"
    /\ request[s].body.kind = "dict"
    /\ request[s].format = "jsonrpc"
    /\ request[s].body.method \in OtherMethods

Replied(s) == request[s].stage = "replied" /\ request[s].reply # NoReply

\* C15: a body with both the jsonrpc and the method key is answered with a
\* JSON-RPC envelope (result or error), every other body with a flat
\* {response, session_id} or {error} object
C15_ReplyShapeFollowsKeys ==
    \A s \in RequestSessions :
        Replied(s) =>
            IF /\ request[s].body.kind = "dict"
               /\ request[s].body.jsonrpc
               /\ request[s].body.method_key
            THEN request[s].reply.shape \in {"jsonrpc_result", "jsonrpc_error"}
            ELSE request[s].reply.shape \in {"flat_response", "flat_error"}

\* ---- C16 --------------------------------------------------------------------
\* C16: the reply to an unexpected exception (HTTP 500) is the -32603 envelope
\* for a request routed as JSON-RPC and the flat {"error"} object for a request
\* routed as simple format, or not routed at all
C16_ErrorShapeFollowsRouting ==
    \A s \in RequestSessions :
        (Replied(s) /\ request[s].reply.status = 500) =>
            IF request[s].format = "jsonrpc"
            THEN /\ request[s].reply.shape = "jsonrpc_error"
                 /\ request[s].reply.code = -32603
            ELSE request[s].reply.shape = "flat_error"

\* ---- C17 --------------------------------------------------------------------
\* C17: every request the handler has taken is eventually answered, whichever
\* failure occurs on the way: the session lookup, the LLM, a read or a write of
\* the database, an exception inside a tool
C17_EveryRequestIsAnswered ==
    \A s \in RequestSessions :
        (request[s].stage \in {"session", "agent"}) ~> Replied(s)

C17_Witness ==
    \E s \in RequestSessions :
        /\ Replied(s)
        /\ request[s].agent_runs = 1
        /\ request[s].reply.status = 500
        /\ request[s].reply.text[Len(request[s].reply.text)] = "db_error_text"

\* ---- C18 --------------------------------------------------------------------
\* C18: the text of a database error never appears in a response of the
\* handler; a persistence failure is answered with a generic retry request
C18_NoDatabaseErrorTextInReply ==
    \A s \in RequestSessions :
        Replied(s) =>
            \A i \in 1..Len(request[s].reply.text) :
                request[s].reply.text[i] # "db_error_text"

\* ---- C19 --------------------------------------------------------------------
\* C19: a database failure during save_standup_report is turned into the
\* return value False and is not propagated: submit_standup ends with the retry
\* message, not with an exception, and the failed save leaves both tables as
\* they were, so that no row exists for that submission
C19_FailedSaveReturnsFalse ==
    /\ [](\A s \in Sessions :
            obs[s].save_result = "db_error" =>
                /\ obs[s].save_returned = "False"
                /\ obs[s].response = "save_error"
                /\ pc[s] = "done")
    /\ [][\A s \in Sessions :
            (pc[s] = "save" /\ obs'[s].save_result = "db_error") =>
                /\ standup_reports' = standup_reports
                /\ daily_summaries' = daily_summaries
                /\ (NewReport(s) \in standup_reports' => NewReport(s) \in standup_reports)]_vars

C19_Witness ==
    \E s \in Sessions :
        /\ pc[s] = "done"
        /\ obs[s].save_result = "db_error"
        /\ obs[s].response = "save_error"
        /\ \A r \in standup_reports : r.user_name # obs[s].user_name

\* ---- C20 --------------------------------------------------------------------
\* the queries of ParserQueries that name no date the parser recognises
UnrecognisedQueries ==
    {<<>>, <<"standup", "summary">>, <<"2025-02-30">>,
     <<"999999999", "days", "ago">>}

\* C20: parse_date_query never raises; it returns a date for every query, and
\* today's date for every query it does not recognise, a query of the shape
\* YYYY-MM-DD that is no calendar date included
C20_ParserNeverRaises ==
    call.fn = "parse_date_query" =>
        /\ call.raised = "none"
        /\ Len(call.result) = 1
        /\ call.args[1] \in UnrecognisedQueries => call.result[1] = call.args[2]

\* ---- C21 --------------------------------------------------------------------
\* a completed direct call of parse_date_range_query for last week
LastWeekCalled ==
    /\ call.fn = "parse_date_range_query"
    /\ call.args[1] \in {<<"last", "week">>, <<"standups", "last", "week">>}

\* C21: on every current date, parse_date_range_query("last week") returns a
\* range of exactly 7 days whose start is a Monday, whose end is the following
\* Sunday, and whose end is strictly before the Monday of the current week
C21_LastWeekIsMondayToSunday ==
    LastWeekCalled =>
        /\ call.raised = "none"
        /\ Len(call.result) = 2
        /\ call.result[2] - call.result[1] + 1 = 7
        /\ call.result[1] % 7 = 0
        /\ call.result[2] % 7 = 6
        /\ \E monday \in (call.args[2] - 6)..call.args[2] :
              monday % 7 = 0 /\ call.result[2] < monday

C21_Witness ==
    /\ LastWeekCalled
    /\ call.args[2] % 7 = 0
    /\ call.result = <<call.args[2] - 7, call.args[2] - 1>>

\* ---- C22 --------------------------------------------------------------------
\* a completed direct call of parse_date_query for "last <weekday n>"
LastWeekdayCalled(n) ==
    /\ call.fn = "parse_date_query"
    /\ call.args[1] = <<"last", WeekdayNames[n + 1]>>

\* C22: on every current date and for every weekday W, parse_date_query
\* ("last W") returns the most recent date strictly earlier than today that
\* falls on W: 1 to 7 days back, and 7 days back when today is itself W
C22_LastWeekdayIsStrictlyEarlier ==
    \A n \in 0..6 :
        LastWeekdayCalled(n) =>
            /\ call.raised = "none"
            /\ Len(call.result) = 1
            /\ call.result[1] % 7 = n
            /\ call.args[2] - call.result[1] \in 1..7
            /\ \A d \in (call.result[1] + 1)..(call.args[2] - 1) : d % 7 # n
            /\ call.args[2] % 7 = n => call.args[2] - call.result[1] = 7

C22_Witness ==
    \E n \in 0..6 :
        /\ LastWeekdayCalled(n)
        /\ call.args[2] % 7 = n
        /\ call.result = <<call.args[2] - 7>>

\* ---- C23 --------------------------------------------------------------------
\* session s ends an invocation of get_user_summary in this step
UserSummaryStep(s) ==
    /\ pc[s] = "idle"
    /\ pc'[s] = "done"
    /\ obs'[s].op = "get_user_summary"

\* C23: get_user_summary is never cached: an invocation leaves the DailySummary
\* store as it is, and every entry of its answer is the row the StandupReport
\* store holds at that moment for that user and date, or the absent marker when
\* it holds none; the submissions it counts are the entries present
C23_UserSummaryRecomputed ==
    [][\A s \in Sessions :
          UserSummaryStep(s) =>
              LET m == obs'[s].reports_by_date IN
              /\ daily_summaries' = daily_summaries
              /\ \A d \in DOMAIN m : \A u \in DOMAIN m[d] :
                    IF \E r \in standup_reports : r.user_name = u /\ r.report_date = d
                    THEN \E r \in standup_reports :
                            /\ r.user_name = u /\ r.report_date = d
                            /\ m[d][u] = <<SelectedColumns(r)>>
                    ELSE m[d][u] = <<>>
              /\ obs'[s].response = "user_summary" =>
                    /\ DOMAIN m # {}
                    /\ obs'[s].stats.actual =
                          Cardinality({c \in (DOMAIN m) \X Users :
                                          c[2] \in DOMAIN m[c[1]] /\ m[c[1]][c[2]] # <<>>})]_vars

\* two invocations with the same users and dates, a report saved between them:
\* the first answer marks it absent, the second shows it
C23_Witness ==
    \E s, t \in Sessions :
        LET m1 == obs[s].reports_by_date
            m2 == obs[t].reports_by_date IN
        /\ s # t
        /\ obs[s].response = "user_summary"
        /\ obs[t].response = "user_summary"
        /\ DOMAIN m1 = DOMAIN m2
        /\ \E d \in DOMAIN m1 :
              /\ DOMAIN m1[d] = DOMAIN m2[d]
              /\ \E u \in DOMAIN m1[d] : m1[d][u] = <<>> /\ m2[d][u] # <<>>

\* ---- C24 --------------------------------------------------------------------
\* line 49: asked_for_name and pending_standup, the AWAITING_NAME state
AwaitingName(st) == st.asked_for_name /\ st.pending_standup_data # <<>>

\* session s ends or suspends, in this step, the first part of a submit_standup
\* turn whose LLM call or JSON parsing failed
FailedExtractionStep(s) ==
    /\ pc[s] = "idle"
    /\ obs'[s].op = "submit_standup"
    /\ obs'[s].llm_name = "fail"

\* C24: in the FRESH state a failed extraction (the LLM call fails or its
\* output is no JSON) ends the turn with the resubmit-in-template message,
\* leaves both state keys as they were, so that the session stays FRESH, and
\* writes no row
C24_FailedExtractionChangesNothing ==
    [][\A s \in ConversationSessions :
          (FailedExtractionStep(s) /\ ~AwaitingName(state[s])) =>
              /\ pc'[s] = "done"
              /\ obs'[s].response = "extract_error"
              /\ obs'[s].save_attempts = 0
              /\ state'[s] = state[s]
              /\ ~AwaitingName(state'[s])
              /\ standup_reports' = standup_reports]_vars

C24_Witness ==
    \E s \in ConversationSessions :
        /\ pc[s] = "done"
        /\ obs[s].response = "extract_error"
        /\ obs[s].llm_name = "fail"
        /\ ~AwaitingName(state[s])
        /\ standup_reports # {}

\* ---- C25 --------------------------------------------------------------------
\* C25: in the AWAITING_NAME state a name extraction that fails or yields no
\* name ends the turn by asking for the name again; the session remains in
\* AWAITING_NAME with the cached payload unchanged and no row is written, so
\* that the next turn starts from the same state, any number of times
C25_FailedNameKeepsAwaiting ==
    [][\A s \in ConversationSessions :
          (/\ pc[s] = "idle"
           /\ obs'[s].op = "submit_standup"
           /\ AwaitingName(state[s])
           /\ obs'[s].llm_name \in {"fail", None, "", "null"}) =>
              /\ pc'[s] = "done"
              /\ obs'[s].response \in {"name_error", "name_retry"}
              /\ obs'[s].save_attempts = 0
              /\ state'[s] = state[s]
              /\ AwaitingName(state'[s])
              /\ standup_reports' = standup_reports]_vars

C25_Witness ==
    \E s \in ConversationSessions :
        /\ pc[s] = "done"
        /\ turns = 3
        /\ obs[s].response \in {"name_error", "name_retry"}
        /\ AwaitingName(state[s])
        /\ state[s] = obs[s].state_before
        /\ standup_reports = {}

\* ---- C26 --------------------------------------------------------------------
\* the turn of s started in AWAITING_NAME and its name extraction gave a name
NameRecovered(s) ==
    /\ obs[s].op = "submit_standup"
    /\ AwaitingName(obs[s].state_before)
    /\ obs[s].llm_name \in Users

\* C26: once the name extraction of an AWAITING_NAME turn succeeds, both state
\* keys are cleared before the remaining checks run: the session is FRESH while
\* the window check, the duplicate check and the save run, and at the end of
\* the turn, whether it ends with the today_plan rejection, a window message,
\* the duplicate notice, the save error or the success message
C26_NameSuccessClearsState ==
    \A s \in ConversationSessions :
        (NameRecovered(s) /\ obs[s].response # "exception") =>
            /\ state[s] = EmptyState
            /\ pc[s] = "done" =>
                  obs[s].response \in {"need_today_plan", "window_before", "window_during",
                                        "window_after", "duplicate", "save_error", "success"}

\* the cached payload is gone after the today_plan rejection
C26_Witness ==
    \E s \in ConversationSessions :
        /\ NameRecovered(s)
        /\ pc[s] = "done"
        /\ obs[s].response = "need_today_plan"
        /\ state[s] = EmptyState

\* ---- C27 --------------------------------------------------------------------
\* the turn of s has a name: extracted with the standup, or recovered
NameAvailable(s) ==
    /\ obs[s].op = "submit_standup"
    /\ obs[s].llm_name \in Users

\* the today_plan of the turn: of the cached payload in a follow-up turn, of
\* the LLM's answer otherwise
TurnPlan(s) ==
    IF AwaitingName(obs[s].state_before)
    THEN obs[s].state_before.pending_standup_data[1].today_plan
    ELSE obs[s].llm_payload[1].today_plan

\* the turn of s is a regular one whose extraction gave the standup without a name
NameMissing(s) ==
    /\ obs[s].op = "submit_standup"
    /\ ~AwaitingName(obs[s].state_before)
    /\ obs[s].llm_name \in {None, "", "null"}

\* C27: only the name is slot-filled. With a name and without a today_plan the
\* turn ends with the resubmit-with-today's-plan message, writes no row and
\* leaves the session out of AWAITING_NAME; without a name the turn asks for the
\* name and enters AWAITING_NAME with the payload as extracted, its today_plan
\* not validated, be it missing too
C27_OnlyNameIsSlotFilled ==
    \A s \in ConversationSessions :
        /\ (NameAvailable(s) /\ TurnPlan(s) \in {None, "", "null"}) =>
              /\ pc[s] = "done"
              /\ obs[s].response = "need_today_plan"
              /\ obs[s].save_attempts = 0
              /\ ~AwaitingName(state[s])
        /\ NameMissing(s) =>
              /\ pc[s] = "done"
              /\ obs[s].response = "ask_name"
              /\ obs[s].save_attempts = 0
              /\ AwaitingName(state[s])
              /\ state[s].pending_standup_data = obs[s].llm_payload

\* a follow-up turn whose cached payload, stored without validation, has no
\* today_plan: the name is recovered and the plan rejected
C27_Witness ==
    \E s \in ConversationSessions :
        /\ NameAvailable(s)
        /\ AwaitingName(obs[s].state_before)
        /\ TurnPlan(s) \in {None, "", "null"}
        /\ obs[s].response = "need_today_plan"
        /\ standup_reports = {}

\* ---- C28 --------------------------------------------------------------------
\* C28: every submit_standup turn is terminal with no partial writes. It makes
\* at most one insert attempt; it returns the success message exactly when that
\* insert created a new row, and the table changes in no other step; and a turn
\* that returns a message leaves the session in AWAITING_NAME only if it took
\* the name-missing branch or was a failed name extraction of a session that
\* was already in AWAITING_NAME
C28_TurnsAreTerminal ==
    /\ [](\A s \in Sessions :
            obs[s].op = "submit_standup" =>
                /\ obs[s].save_attempts <= 1
                /\ pc[s] = "done" =>
                      /\ obs[s].response = "success" <=> obs[s].save_result = "inserted"
                      /\ obs[s].response = "success" =>
                            \E r \in standup_reports :
                                /\ r.user_name = obs[s].user_name
                                /\ r.report_date = obs[s].report_date
                      /\ (AwaitingName(state[s]) /\ obs[s].response # "exception") =>
                            \/ obs[s].response = "ask_name"
                            \/ /\ obs[s].response \in {"name_error", "name_retry"}
                               /\ AwaitingName(obs[s].state_before))
    /\ [][standup_reports' # standup_reports =>
            \E s \in Sessions :
                /\ pc[s] = "save"
                /\ pc'[s] = "done"
                /\ obs'[s].response = "success"
                /\ standup_reports' = standup_reports \cup {NewReport(s)}
                /\ NewReport(s) \notin standup_reports]_vars

\* two sessions raced for one key: one turn ended with the row and the success
\* message, the other made its one attempt and ended without either
C28_Witness ==
    \E s, t \in Sessions :
        /\ pc[s] = "done" /\ pc[t] = "done"
        /\ obs[s].response = "success"
        /\ obs[t].save_attempts = 1
        /\ obs[t].save_result = "conflict"
        /\ obs[t].response = "save_error"
        /\ Cardinality(standup_reports) = 1

\* ---- C29 --------------------------------------------------------------------
\* C29: a turn that is_within_window() rejected returns the before-window or
\* the after-window guidance, never the message of the status "during"
C29_WindowRejectionNeverDuring ==
    \A s \in ConversationSessions :
        (/\ obs[s].op = "submit_standup"
         /\ pc[s] = "done"
         /\ obs[s].window_read # -1
         /\ ~is_within_window(obs[s].window_read)) =>
            obs[s].response \in {"window_before", "window_after"}

\* ---- C30 --------------------------------------------------------------------
\* C30: the submitted_at of every stored report has its time of day within the
\* window, and its report_date is the calendar date of its submitted_at
C30_StoredTimesWithinWindow ==
    \A r \in standup_reports :
        /\ is_within_window(r.submitted_at.time)
        /\ r.report_date = r.submitted_at.day

\* ---- C31 --------------------------------------------------------------------
WindowCalled == call.fn = "window"

\* C31: at every clock value is_within_window() is true exactly when
\* get_window_status() is "during"; the status is "before" exactly when the time
\* is strictly earlier than the window start and "after" exactly when it is
\* strictly later than the window end, so both boundary instants are inside
C31_WindowStatusAgreesWithCheck ==
    WindowCalled =>
        LET now    == call.args[1]
            within == call.result[1]
            status == call.result[2] IN
        /\ within <=> (status = "during")
        /\ (status = "before") <=> (now < WINDOW_START)
        /\ (status = "after") <=> (now > WINDOW_END)
        /\ status \in {"before", "during", "after"}
        /\ (now \in {WINDOW_START, WINDOW_END}) => within

\* the two functions were evaluated at the last instant of the window
C31_Witness ==
    /\ WindowCalled
    /\ call.args[1] = WINDOW_END
    /\ call.result = <<TRUE, "during">>

\* ---- C32 --------------------------------------------------------------------
\* C32: on a cache miss for a date without reports get_summary returns the
\* no-submissions message (the window-is-open variant when the date is today,
\* the plain variant otherwise), calls no LLM and writes no cache row; no
\* cached row records zero submissions
C32_EmptyDateNotCached ==
    /\ [](\A r \in daily_summaries : r.total_submissions >= 1)
    /\ [][\A s \in Sessions :
              (/\ pc[s] = "fetch_reports"
               /\ pc'[s] # "fetch_reports"
               /\ obs'[s].response # "exception"
               /\ get_daily_reports(locals[s].target_date) = {})
              => /\ pc'[s] = "done"
                 /\ obs'[s].response = IF locals[s].target_date = clock.day
                                       THEN "no_reports_yet_today"
                                       ELSE "no_reports_found"
                 /\ obs'[s].cache_hit = {}
                 /\ obs'[s].llm_calls = 0
                 /\ obs'[s].cache_writes = 0
                 /\ daily_summaries' = daily_summaries]_vars

\* both variants were returned, and no row was cached for the empty date
C32_Witness ==
    /\ \E s \in DoneSummaries :
          /\ obs[s].response = "no_reports_found"
          /\ obs[s].llm_calls = 0
          /\ get_cached_summary(obs[s].target_date) = {}
    /\ \E s \in DoneSummaries : obs[s].response = "no_reports_yet_today"

\* ---- C33 --------------------------------------------------------------------
\* the step of session s that starts a get_summary whose date was parsed and
\* whose cache lookup returned
SummaryLookupStep(s) ==
    /\ pc[s] = "idle"
    /\ pc'[s] # "idle"
    /\ obs'[s].op = "get_summary"
    /\ obs'[s].response \notin {"exception", "date_not_understood"}

ExtractTextCalled == call.fn = "extract_text_from_telex_message"

\* the texts, after tag stripping, of the text items of a history
HistoryTexts(data_array) ==
    {i \in DOMAIN data_array :
        data_array[i].kind = "text" /\ _clean_html(data_array[i].text) # ""}

\* strategy (a): the most recent non-empty text item of the data part
StrategyHistory(message) ==
    LET parts == message.parts
        data == {i \in DOMAIN parts : parts[i].kind = "data" /\ parts[i].data # <<>>} IN
    IF data = {} \/ HistoryTexts(parts[FirstPart(data)].data) = {} THEN ""
    ELSE LET data_array == parts[FirstPart(data)].data
             latest == CHOOSE i \in HistoryTexts(data_array) :
                           \A j \in HistoryTexts(data_array) : j <= i IN
         _clean_html(data_array[latest].text)

\* strategy (b): the first part of kind text that has a text
StrategyTextPart(message) ==
    LET parts == message.parts
        texts == {i \in DOMAIN parts : parts[i].kind = "text" /\ parts[i].text # None} IN
    IF texts = {} THEN "" ELSE _clean_html(parts[FirstPart(texts)].text)

\* strategy (c): the direct text field
StrategyDirectText(message) == _clean_html(message.text)

\* strategy (d): the first non-empty text item of the content array
StrategyContent(message) ==
    LET content == message.content
        texts == {i \in DOMAIN content :
                     content[i].type = "text" /\ _clean_html(content[i].text) # ""} IN
    IF texts = {} THEN "" ELSE _clean_html(content[FirstPart(texts)].text)

\* every text found anywhere in the message, after tag stripping
TextsAnywhere(message) ==
    {_clean_html(message.text), _clean_html(message.metadata.text)}
    \cup {_clean_html(message.parts[i].text) : i \in DOMAIN message.parts}
    \cup UNION {{_clean_html(message.parts[i].data[j].text) :
                     j \in DOMAIN message.parts[i].data} : i \in DOMAIN message.parts}
    \cup {_clean_html(message.content[i].text) : i \in DOMAIN message.content}

\* C34: the result is that of the first of the strategies (a) history of the
\* data part, (b) first text part, (c) direct text field, (d) content array,
\* (e) recursive search that yields a non-empty string after tag stripping,
\* and it is empty only when no text anywhere in the message is non-empty
C34_FirstNonEmptyStrategyWins ==
    ExtractTextCalled =>
        LET message == call.args[1]
            text    == call.result[1]
            a == StrategyHistory(message)
            b == StrategyTextPart(message)
            c == StrategyDirectText(message)
            d == StrategyContent(message) IN
        /\ a # "" => text = a
        /\ (a = "" /\ b # "") => text = b
        /\ (a = "" /\ b = "" /\ c # "") => text = c
        /\ (a = "" /\ b = "" /\ c = "" /\ d # "") => text = d
        /\ (a = "" /\ b = "" /\ c = "" /\ d = "")
              => /\ text \in TextsAnywhere(message)
                 /\ text = "" <=> TextsAnywhere(message) = {""}

\* the history held an older text and a newer one, next to a text part and a
\* direct text, and the newer text of the history was returned
C34_Witness ==
    /\ ExtractTextCalled
    /\ \E i \in DOMAIN call.args[1].parts :
          /\ call.args[1].parts[i].kind = "data"
          /\ call.args[1].parts[i].data
                = <<[kind |-> "text", text |-> "b"], [kind |-> "text", text |-> "<p>a</p>"]>>
    /\ \E i \in DOMAIN call.args[1].parts :
          call.args[1].parts[i] = [kind |-> "text", data |-> <<>>, text |-> "b"]
    /\ call.args[1].text = "b"
    /\ call.result = <<"a">>

\* ---- C35 --------------------------------------------------------------------
TelexRequestParsed == call.fn = "parse_telex_request"

\* the key {external_user_id}-{DDMMYYYY}
DailyKey(user, utc_day) == user \o <<"-">> \o strftime_ddmmYYYY(utc_day)

\* a request with an external user id gets the key of that user and UTC day,
\* which no other user and no other day gets
KeyOfUserAndDay ==
    LET utc_day       == call.args[2]
        session_id    == call.result[1]
        telex_user_id == call.result[2] IN
    telex_user_id # <<>>
    => /\ telex_user_id \in TelexUserIds
       /\ session_id = DailyKey(telex_user_id, utc_day)
       /\ \A user \in TelexUserIds, day \in UtcDays :
             (DailyKey(user, day) = session_id) <=> (user = telex_user_id /\ day = utc_day)

\* C35 as stated: with an external user id the session key is
\* {external_user_id}-{DDMMYYYY} of the current UTC date, the same for the same
\* user and day and different otherwise; without one the session key is the
\* extracted context id
C35_SessionKeyOrContextId ==
    TelexRequestParsed =>
        /\ KeyOfUserAndDay
        /\ call.result[2] = <<>> => call.result[1] = call.result[3]

\* C35: with an external user id the session key is
\* {external_user_id}-{DDMMYYYY} of the current UTC date, the same for the same
\* user and day and different otherwise; without one the session key is the
\* extracted context id when that is not empty, and a fresh token when it is
C35_SessionKeyOrContextIdOrToken ==
    TelexRequestParsed =>
        /\ KeyOfUserAndDay
        /\ (call.result[2] = <<>> /\ call.result[3] # <<>>)
              => call.result[1] = call.result[3]
        /\ (call.result[2] = <<>> /\ call.result[3] = <<>>)
              => call.result[1] = <<"session-", "uuid4">>

\* a request of user u arrived on 2 February with a context id next to it
C35_Witness ==
    /\ TelexRequestParsed
    /\ call.args[1].contextId = <<<<"c", "1">>>>
    /\ call.args[1].userId = <<<<"u">>>>
    /\ call.args[1].telex_user_id = <<>>
    /\ call.args[1].user_id = <<>>
    /\ call.result[1] = <<"u", "-", "0", "2", "0", "2", "2", "0", "2", "5">>

\* ---- C36 --------------------------------------------------------------------
RangeParserCalled == call.fn = "parse_date_range_query"

\* the queries "last N days" and "past N days" of RangeParserQueries, N >= 1
TrailingDaysQueries ==
    {q \in RangeParserQueries :
        /\ Len(q) = 3
        /\ q[1] \in {"last", "past"}
        /\ q[3] \in {"day", "days"}
        /\ IntOf(q[2]) >= 1}

\* C36: for every N >= 1 "last N days" and "past N days" return the N days
\* that end today; "past week" returns the range of "last 7 days" and "past
\* two weeks" that of "last 14 days", and these differ from the calendar weeks
\* returned for "last week" and "last two weeks"
C36_TrailingRangesEndToday ==
    RangeParserCalled =>
        LET query  == call.args[1]
            today  == call.args[2]
            monday == today - (today % 7) IN
        /\ query \in TrailingDaysQueries
              => /\ call.raised = "none"
                 /\ call.result = <<today - (IntOf(query[2]) - 1), today>>
        /\ query = <<"past", "week">>
              => /\ call.result = <<today - (7 - 1), today>>
                 /\ call.result # <<monday - 7, monday - 1>>
        /\ query \in {<<"past", "two", "weeks">>, <<"past", "2", "weeks">>}
              => /\ call.result = <<today - (14 - 1), today>>
                 /\ call.result # <<monday - 14, monday - 1>>
        /\ query = <<"last", "week">> => call.result = <<monday - 7, monday - 1>>
        /\ query \in {<<"last", "two", "weeks">>, <<"last", "2", "weeks">>}
              => call.result = <<monday - 14, monday - 1>>

\* ---- C37 --------------------------------------------------------------------
\* C37: for every query the pair (start, end) that parse_date_range_query
\* returns has start <= end, "last 0 days", "past 0 days" and two dates given
\* in reverse order included
C37_RangeStartNotAfterEnd ==
    (RangeParserCalled /\ call.raised = "none") =>
        /\ Len(call.result) = 2
        /\ call.result[1] <= call.result[2]

\* ---- C38 --------------------------------------------------------------------
\* C38: in every reachable state of a session the asked-for-name flag is set
\* exactly when a pending payload is stored; a step changes the two keys only
\* on the name-missing branch, which sets the flag and stores the extracted
\* payload, and on a successful name extraction, which clears both
C38_FlagIffPendingPayload ==
    /\ [](\A s \in Sessions :
              state[s].asked_for_name <=> state[s].pending_standup_data # <<>>)
    /\ [][\A s \in Sessions :
              state'[s] # state[s]
              => \/ /\ state[s] = [asked_for_name |-> FALSE, pending_standup_data |-> <<>>]
                    /\ obs'[s].response = "ask_name"
                    /\ obs'[s].llm_name \in {None, "", "null"}
                    /\ state'[s] = [asked_for_name       |-> TRUE,
                                    pending_standup_data |-> obs'[s].llm_payload]
                    /\ obs'[s].llm_payload # <<>>
                 \/ /\ state[s].asked_for_name
                    /\ state[s].pending_standup_data # <<>>
                    /\ obs'[s].llm_name \in Users
                    /\ state'[s] = [asked_for_name |-> FALSE, pending_standup_data |-> <<>>]]_vars

\* a session asked for the name, had both keys cleared by the follow-up turn,
\* and was asked for the name again in a third turn
C38_Witness ==
    \E s \in ConversationSessions :
        /\ turns = 3
        /\ pc[s] = "done"
        /\ obs[s].response = "ask_name"
        /\ obs[s].state_before = [asked_for_name |-> FALSE, pending_standup_data |-> <<>>]
        /\ state[s].asked_for_name
        /\ state[s].pending_standup_data # <<>>
        /\ standup_reports # {}

\* ---- C39 --------------------------------------------------------------------
\* the get_user_summary invocation of s reached its statistics block
StatisticsReached(s) ==
    /\ obs[s].op = "get_user_summary"
    /\ obs[s].stats.possible # -1

\* C39: whenever get_user_summary reaches its statistics block, the number of
\* requested users times the number of days is at least 1, so the completion
\* rate is computed, and the counted submissions do not exceed it, for lists
\* with a name twice and for ranges without a day too
C39_StatisticsNeverDivideByZero ==
    \A s \in Sessions :
        StatisticsReached(s) =>
            /\ obs[s].stats.tracked >= 1
            /\ obs[s].stats.total_days >= 1
            /\ obs[s].stats.possible >= 1
            /\ obs[s].stats.possible = obs[s].stats.tracked * obs[s].stats.total_days
            /\ obs[s].stats.actual >= 0
            /\ obs[s].stats.actual <= obs[s].stats.possible
            /\ obs[s].response = "user_summary"

\* a list naming a member twice was summarised over a week holding her two
\* reports: 2 submissions of 14 possible
C39_Witness ==
    \E s \in Sessions :
        /\ StatisticsReached(s)
        /\ obs[s].stats = [total_days |-> 7, tracked |-> 2, actual |-> 2, possible |-> 14]
        /\ DOMAIN obs[s].reports_by_date = (clock.day - 6)..clock.day
        /\ \A d \in DOMAIN obs[s].reports_by_date :
              DOMAIN obs[s].reports_by_date[d] = {"Ada"}

\* ---- C40 --------------------------------------------------------------------
\* a step of a get_summary or get_user_summary invocation of session s
SummaryWorkflowStep(s) ==
    /\ pc'[s] # pc[s]
    /\ obs'[s].op \in {"get_summary", "get_user_summary"}

\* C40: no step of get_summary or get_user_summary inserts or changes a stored
\* report or changes a key of any session's conversation state; a session that
\* is awaiting the name stays so, with the same pending payload
C40_SummariesAreReadOnly ==
    [][\A s \in Sessions :
          SummaryWorkflowStep(s)
          => /\ standup_reports' = standup_reports
             /\ state' = state
             /\ (state[s].asked_for_name /\ state[s].pending_standup_data # <<>>)
                   => /\ state'[s].asked_for_name
                      /\ state'[s].pending_standup_data = state[s].pending_standup_data]_vars

\* a session that was asked for its name requested the team summary of
\* yesterday, had it generated and cached, and is still awaiting the name
C40_Witness ==
    \E s \in Sessions :
        /\ pc[s] = "done"
        /\ obs[s].op = "get_summary"
        /\ obs[s].response = "generated_summary"
        /\ obs[s].state_before.asked_for_name
        /\ state[s].asked_for_name
        /\ state[s].pending_standup_data = obs[s].state_before.pending_standup_data
        /\ state[s].pending_standup_data # <<>>
        /\ daily_summaries # {}

====
